---- MODULE Spec2Model ----
(***************************************************************************)
(* Model of rego-adventure's request gate and verification engine:         *)
(*   - internal/http/ratelimiter.go : RateLimiter (fixed window counter,   *)
(*     background cleanupLoop, gin Middleware)                             *)
(*   - backend/http/routes.go       : Server.SetupRoutes (handler chains)  *)
(*   - quest verifier               : Verifier.Verify                      *)
(*                                                                         *)
(* Time is time.Now() in seconds.  The clock advances in steps of Granule  *)
(* seconds, so every timestamp of the model is a multiple of Granule.      *)
(***************************************************************************)
EXTENDS Integers, Sequences, FiniteSets, TLC

----------------------------------------------------------------------------
(* Bounds of the model *)

\* seconds the clock advances per Tick
Granule == 20
\* the clock stops after MaxTicks ticks
MaxTicks == 5
\* RATE_LIMIT_API / RATE_LIMIT_FRONTEND are drawn from 0..MaxLimit
MaxLimit == 2

MaxTime == MaxTicks * Granule

\* time.Minute, in seconds
OneMinute == 60

\* goroutines serving requests (gin runs each request on its own goroutine)
Workers == {"w1", "w2"}
\* values of c.ClientIP()
ClientIPs == {"10.0.0.1"}
\* RATE_LIMIT_WINDOW values (seconds); the configuration is not validated
Windows == {0, Granule, 2 * Granule}
Limits == 0..MaxLimit

\* request paths (c.Request.URL.Path), as sequences of characters
PathApiVerify == <<"/", "a", "p", "i", "/", "v">>
PathApix == <<"/", "a", "p", "i", "x">>
PathRoot == <<"/">>
Paths == {PathApiVerify, PathApix, PathRoot}

Max2(a, b) == IF a >= b THEN a ELSE b
Min2(a, b) == IF a <= b THEN a ELSE b

----------------------------------------------------------------------------
VARIABLES
    cfg,        \* RateLimiter fields apiLimit, frontendLimit, windowDuration, enabled
    clients,    \* rl.clients: map clientKey -> clientLimit (count, windowStart)
    clock,      \* time.Now()
    mu,         \* rl.mu: "free" or the goroutine holding it
    pc,         \* per worker: position inside Middleware/checkLimit
    loc,        \* per worker: locals of Middleware/checkLimit
    sweepNow,   \* cleanupLoop's local now (-1 while waiting for the ticker)
    last,       \* the last completed step: "pass" (limiter disabled), a branch of
                \* checkLimit ("new", "reset", "inc", "429") or "sweep"
    gwin,       \* history: per (ip, endpoint class) the window the checks fall in
    hist,       \* history: per (ip, endpoint class) the allowed checks of the last
                \* window-length of time, by timestamp (recorded when hist.on)
    quiet       \* TRUE once clients have stopped sending requests

rlVars == <<cfg, clients, clock, mu, pc, loc, sweepNow, last, gwin, hist, quiet>>

VARIABLES
    hpc,        \* the request goroutine: "idle", "verify" (inside Verifier.Verify),
                \* "ret" (Verify has returned to VerifySolution)
    served,     \* the request dispatched last: its route, the middleware that ran
                \* before the handler, the handler that ran, the HTTP status
    vquest,     \* Verify's argument quest
    vcode,      \* Verify's argument regoCode
    vi,         \* index in quest.Tests of the next loop iteration
    results,    \* Verify's local results
    allPassed,  \* Verify's local allPassed
    vret,       \* Verify's return values (result, err)
    ctxErr,     \* ctx.Err() of the request's context
    evals       \* history: what r.Eval returned in each iteration run so far

srvVars == <<hpc, served, vquest, vcode, vi, results, allPassed, vret, ctxErr, evals>>

VARIABLES
    packs,      \* QuestRepository.packs: map pack id -> *QuestPack
    lret,       \* the LoadPack call made last: its id, its bytes (named by how
                \* they differ from the valid pack) and the error it returned
    loads,      \* history: the number of LoadPack calls made so far
    entry       \* main: the number of directory entries its loop has handled

repoVars == <<packs, lret, loads, entry>>

VARIABLES
    cmd         \* the solutionverifier command: its position, the quests of its
                \* pack, its loop index, totalTests, passedTests, its exit status
                \* and, as history, what Verify returned for each quest

Keys == ClientIPs \X {"api", "frontend"}

NoLoc == [key |-> <<>>, class |-> <<>>, limit |-> 0, now |-> 0,
          exists |-> FALSE, count |-> 0, windowStart |-> 0]

\* strings.HasPrefix
HasPrefix(s, prefix) ==
    /\ Len(s) >= Len(prefix)
    /\ SubSeq(s, 1, Len(prefix)) = prefix

ApiPrefix == <<"/", "a", "p", "i">>

\* Middleware: endpointType
EndpointType(path) == IF HasPrefix(path, ApiPrefix) THEN "api" ELSE "frontend"

\* Middleware: limit
LimitFor(path) == IF HasPrefix(path, ApiPrefix) THEN cfg.apiLimit ELSE cfg.frontendLimit

\* Middleware: clientKey := c.ClientIP() + ":" + endpointType
ClientKeyShared(ip, endpointType) == <<ip, "api">>
ClientKey(ip, endpointType) == <<ip, endpointType>>

\* cleanupLoop: expiration := max(rl.windowDuration*2, time.Minute)
ExpirationOneWindow == cfg.windowDuration
Expiration == Max2(cfg.windowDuration * 2, OneMinute)

\* cleanupLoop: the delete condition  now.Sub(client.windowStart) > expiration
StaleReversed(now, client) == client.windowStart - now > Expiration
Stale(now, client) == now - client.windowStart > Expiration

\* checkLimit: !exists || now.Sub(client.windowStart) >= rl.windowDuration
WindowExpiredStrict(l) == ~l.exists \/ l.now - l.windowStart > cfg.windowDuration
WindowExpired(l) == ~l.exists \/ l.now - l.windowStart >= cfg.windowDuration

\* checkLimit: client.count >= limit
OverLimitOffByOne(l) == l.count > l.limit
OverLimit(l) == l.count >= l.limit

\* rl.mu.Lock() succeeds only when the mutex is free
CanLockAlways == TRUE
CanLock == mu = "free"

----------------------------------------------------------------------------
(* History of checks per (ip, endpoint class): the window a check falls in *)
(* and its ordinal in that window, computed from the timestamps alone.     *)

GhostCap == MaxLimit + 1

GhostAfter(class, now, allowed) ==
    LET fresh == class \notin DOMAIN gwin
                 \/ now - gwin[class].start >= cfg.windowDuration
        old == IF fresh THEN [start |-> now, checks |-> 0, allowed |-> 0]
               ELSE gwin[class]
        new == [start |-> old.start,
                checks |-> Min2(old.checks + 1, GhostCap),
                allowed |-> Min2(old.allowed + (IF allowed THEN 1 ELSE 0), GhostCap)]
    IN [c \in DOMAIN gwin \cup {class} |-> IF c = class THEN new ELSE gwin[c]]

\* History of the allowed checks by timestamp, per (ip, endpoint class), over
\* the last windowDuration of time: recent[i] is the number of checks allowed
\* at time seen - (i - 1) * Granule, for the Slots timestamps of the clock
\* that a half-open interval of length windowDuration holds.
Slots == cfg.windowDuration \div Granule
HistCap == 2 * MaxLimit + 1
HistOff == [on |-> FALSE, of |-> << >>]
HistOn == [on |-> TRUE, of |-> << >>]

HistAfter(class, now, allowed) ==
    IF ~hist.on THEN hist
    ELSE LET old == IF class \in DOMAIN hist.of THEN hist.of[class]
                    ELSE [seen |-> now, recent |-> [i \in 1..Slots |-> 0]]
             d == (now - old.seen) \div Granule
             new == [seen |-> now,
                     recent |-> [i \in 1..Slots |->
                        Min2(HistCap,
                             (IF i - d >= 1 THEN old.recent[i - d] ELSE 0)
                             + (IF i = 1 /\ allowed THEN 1 ELSE 0))]]
         IN [hist EXCEPT !.of = [c \in DOMAIN hist.of \cup {class} |->
                                   IF c = class THEN new ELSE hist.of[c]]]

----------------------------------------------------------------------------
(* Quests, submissions and the policy evaluation engine *)

\* a quest handed to Verify has at most MaxTests test cases
MaxTests == 2

TestIDs == {1, 2}
Inputs == {"admin", "guest"}

\* TestPayload.Data: nil, or an object (here: the roles whose level is >= 10)
NilData == [isNil |-> TRUE, roles |-> {}]
DataObject(roles) == [isNil |-> FALSE, roles |-> roles]
Datas == {NilData, DataObject({"admin"})}

\* TestCase
TestCases == [id : TestIDs, input : Inputs, data : Datas, expected : BOOLEAN]

QuestQuery == "data.quest.allow"

\* Quest (the fields Verify reads)
QuestsNamed(n) == [query : {QuestQuery}, tests : [1..n -> TestCases]]
Quests == UNION {QuestsNamed(n) : n \in 0..MaxTests}

\* submitted policy sources, named by what they do:
\*   allow_admin     default allow = false; allow if input.user == "admin"
\*   always_false    default allow = false
\*   syntax_error    default allow =                       (does not compile)
\*   roles_level     allow if data.roles[input.role].level >= 10, default false
\*   http_send       allow if http.send(...)
\*   net_lookup      allow if net.lookup_ip_addr(...)
\*   opa_runtime     allow if opa.runtime()
\*   no_rule         a package without the queried rule
\*   string_value    allow := "yes"
\*   no_expressions  a result without expressions
\*   fault_on_guest  allow is true for "admin", a runtime fault for any other input
Codes == {"allow_admin", "always_false", "syntax_error", "roles_level", "http_send",
          "no_rule", "string_value", "no_expressions", "fault_on_guest",
          "net_lookup", "opa_runtime"}

\* the side-effecting or environment-probing primitive a source invokes
Invokes(code) ==
    CASE code = "http_send" -> {"http.send"}
      [] code = "net_lookup" -> {"net.lookup_ip_addr"}
      [] code = "opa_runtime" -> {"opa.runtime"}
      [] OTHER -> {}

\* Verify: rego.UnsafeBuiltins(...)
UnsafeBuiltinsWithoutRuntime == {"http.send", "net.lookup_ip_addr"}
UnsafeBuiltins == {"http.send", "net.lookup_ip_addr", "opa.runtime"}

\* what r.Eval returns: an error, or a result set (a sequence of results, each
\* with a sequence of expression values; a value carries its dynamic type),
\* together with the primitives the evaluation executed
EvalError(e) == [err |-> e, rs |-> << >>, effects |-> {}]
EvalResult(rs) == [err |-> "nil", rs |-> rs, effects |-> {}]
BoolValue(b) == [type |-> "bool", bool |-> b, str |-> ""]
StringValue(x) == [type |-> "string", bool |-> FALSE, str |-> x]
OneValue(v) == << [Expressions |-> << [Value |-> v] >>] >>

\* the store of one evaluation: the engine's empty default store, or
\* inmem.NewFromObject(test.Payload.Data)
EmptyStore == [roles |-> {}]
NewFromObject(data) == [roles |-> data.roles]

\* the external policy evaluation engine: rego.New(options...).Eval(ctx) for a
\* context that is not cancelled
Engine(code, query, input, store, unsafe) ==
    CASE code = "syntax_error" -> EvalError("rego_parse_error")
      [] Invokes(code) # {} ->
            IF Invokes(code) \subseteq unsafe
            THEN EvalError("rego_type_error: unsafe built-in")
            ELSE [EvalResult(OneValue(BoolValue(TRUE))) EXCEPT !.effects = Invokes(code)]
      [] code = "allow_admin" -> EvalResult(OneValue(BoolValue(input = "admin")))
      [] code = "always_false" -> EvalResult(OneValue(BoolValue(FALSE)))
      [] code = "roles_level" -> EvalResult(OneValue(BoolValue(input \in store.roles)))
      [] code = "no_rule" -> EvalResult(<< >>)
      [] code = "string_value" -> EvalResult(OneValue(StringValue("yes")))
      [] code = "no_expressions" -> EvalResult(<< [Expressions |-> << >>] >>)
      [] code = "fault_on_guest" ->
            IF input = "admin" THEN EvalResult(OneValue(BoolValue(TRUE)))
            ELSE EvalError("eval_builtin_error")

\* Verify: the store option of one test case
StoreForFirstTest(test) ==
    IF ~vquest.tests[1].data.isNil THEN NewFromObject(vquest.tests[1].data)
    ELSE EmptyStore
StoreFor(test) == IF ~test.data.isNil THEN NewFromObject(test.data) ELSE EmptyStore

\* Verify: rs, err := r.Eval(ctx).  Under a cancelled context the engine either
\* notices the cancellation and fails, or finishes as it would have
EvalOutcomes(code, query, test, cerr) ==
    LET normal == Engine(code, query, test.input, StoreFor(test), UnsafeBuiltins)
    IN IF cerr = "nil" THEN {normal}
       ELSE {normal, EvalError("context canceled")}

\* Verify: the boolean read from the result set
ActualOfTruthy(rs) ==
    IF Len(rs) > 0 /\ Len(rs[1].Expressions) > 0
    THEN IF rs[1].Expressions[1].Value.type = "bool"
         THEN rs[1].Expressions[1].Value.bool
         ELSE TRUE
    ELSE FALSE
ActualOf(rs) ==
    IF Len(rs) > 0 /\ Len(rs[1].Expressions) > 0
    THEN IF rs[1].Expressions[1].Value.type = "bool"
         THEN rs[1].Expressions[1].Value.bool
         ELSE FALSE
    ELSE FALSE

\* Verify: passed := actual == test.ExpectedOutcome
PassedIsActual(actual, expected) == actual
PassedOf(actual, expected) == actual = expected

\* Verify: if !passed { allPassed = false }
AllPassedLastOnly(all, passed) == passed
AllPassedAfter(all, passed) == IF ~passed THEN FALSE ELSE all

\* Verify: fmt.Sprintf("Compilation/Runtime error: %v", err); "" is << >>
ErrorString(e) == <<"Compilation/Runtime error: ", e>>

\* *QuestVerificationResult: nil, or a result
NilResult == [isNil |-> TRUE, Passed |-> FALSE, Error |-> << >>, Results |-> << >>]
QuestVerificationResult(passed, error, res) ==
    [isNil |-> FALSE, Passed |-> passed, Error |-> error, Results |-> res]

\* Verify: the Results of the result returned on a failed evaluation: the
\* field is not set, the rows recorded so far are dropped
ResultsOnErrorKept == results
ResultsOnError == << >>

\* Verify: the return on a failed evaluation
ErrorReturnIgnoringCtx(e, cerr) ==
    [result |-> QuestVerificationResult(FALSE, ErrorString(e), << >>), err |-> "nil"]
ErrorReturn(e, cerr) ==
    IF cerr # "nil" THEN [result |-> NilResult, err |-> cerr]
    ELSE [result |-> QuestVerificationResult(FALSE, ErrorString(e), ResultsOnError),
          err |-> "nil"]

NoReturn == [result |-> NilResult, err |-> "none"]
NoQuest == [query |-> "", tests |-> << >>]
NoServed == [route |-> "none", gates |-> << >>, handler |-> "none", status |-> 0]

SrvIdle ==
    /\ hpc = "idle"
    /\ served = NoServed
    /\ vquest = NoQuest
    /\ vcode = ""
    /\ vi = 0
    /\ results = << >>
    /\ allPassed = TRUE
    /\ vret = NoReturn
    /\ ctxErr = "nil"
    /\ evals = << >>

----------------------------------------------------------------------------
(* Quest packs: strings, limits and the validation functions *)

MaxPackTitle == 100
MaxPackDescription == 500
MaxPackGenre == 50
MaxPackObjective == 500
MaxUIGrimoireTitle == 100
MaxUIHintButton == 100
MaxUIVerifyButton == 100
MaxUIMessageSuccess == 200
MaxUIMessageFailure == 200
MaxUIPerfectScoreMessage == 1000
MaxUIPerfectScoreButton == 100
MaxUIBeginAdventureButton == 100
MaxQuestTitle == 100
MaxQuestDescriptionTask == 1000
MaxQuestDescriptionLore == 2000
MaxQuestHint == 500
MaxQuestSolution == 5000
MaxQuestTemplate == 10000
MaxManualDataModel == 2000
MaxManualRegoSnippet == 5000
MaxManualExternalLink == 500
MaxPrologueItem == 2000
MaxEpilogueItem == 2000
MaxTestPayloadBytes == 50000

\* A Go string, by what the validation reads of it: the number of its
\* characters, the number of bytes of its UTF-8 encoding, whether it consists
\* of white space only, and whether all its characters are among
\* a-z A-Z 0-9, white space and - _ . , ! ? '
Text(n) == [chars |-> n, bytes |-> n, blank |-> n = 0, plain |-> TRUE]
Spaces(n) == [chars |-> n, bytes |-> n, blank |-> TRUE, plain |-> TRUE]
\* n characters of two bytes each, such as e-acute
WideText(n) == [chars |-> n, bytes |-> 2 * n, blank |-> n = 0, plain |-> FALSE]
\* n characters such as &
Symbols(n) == [chars |-> n, bytes |-> n, blank |-> n = 0, plain |-> FALSE]

\* len(s) of a Go string: the number of bytes
GoLen(s) == s.bytes

\* an error of the validation: the field it names and the rule that failed
ValidationError(field, rule) == [field |-> field, rule |-> rule]
NoError == [field |-> << >>, rule |-> "nil"]

validateStringLength(s, max, fieldName) ==
    IF GoLen(s) > max THEN ValidationError(fieldName, "length") ELSE NoError

\* strings.TrimSpace(s) == ""
validateNonEmptyUntrimmed(s, fieldName) ==
    IF GoLen(s) = 0 THEN ValidationError(fieldName, "empty") ELSE NoError
validateNonEmpty(s, fieldName) ==
    IF s.blank THEN ValidationError(fieldName, "empty") ELSE NoError

\* ^[a-zA-Z0-9\s\-_.,!?']+$
validateAlphanumericWithSpaces(s, fieldName) ==
    IF ~(GoLen(s) > 0 /\ s.plain) THEN ValidationError(fieldName, "characters")
    ELSE NoError

\* if s != "" { validateStringLength(...) }
validateOptionalLength(s, max, fieldName) ==
    IF GoLen(s) # 0 THEN validateStringLength(s, max, fieldName) ELSE NoError

\* the first error of a run of checks that returns at the first failure
RECURSIVE FirstError(_)
FirstError(checks) ==
    IF checks = << >> THEN NoError
    ELSE IF Head(checks) # NoError THEN Head(checks)
    ELSE FirstError(Tail(checks))

\* for i, entry := range entries { validateStringLength(entry, max, name[i]) }
EntryChecks(entries, max, name) ==
    [i \in 1..Len(entries) |-> validateStringLength(entries[i], max, name \o <<i - 1>>)]

\* len(json.Marshal(v)) of Payload.Input and Payload.Data: a JSON value of
\* `size` bytes; a nil Input is written as null
JSONValue(size) == [isNil |-> FALSE, size |-> size]
JSONNil == [isNil |-> TRUE, size |-> 4]

\* len(json.Marshal(test.Payload)): {"input":X} or {"input":X,"data":Y}, the
\* data member being left out when Data is nil (omitempty)
PayloadJSONLen(payload) ==
    10 + payload.Input.size
       + (IF payload.Data.isNil THEN 0 ELSE 8 + payload.Data.size)

\* validateQuest: the three size checks of one test case
TestChecks(test, name) ==
    << IF PayloadJSONLen(test.Payload) > MaxTestPayloadBytes
       THEN ValidationError(name, "payload size") ELSE NoError,
       IF ~test.Payload.Input.isNil /\ test.Payload.Input.size > MaxTestPayloadBytes
       THEN ValidationError(name, "input size") ELSE NoError,
       IF ~test.Payload.Data.isNil /\ test.Payload.Data.size > MaxTestPayloadBytes
       THEN ValidationError(name, "data size") ELSE NoError >>

RECURSIVE Flatten(_)
Flatten(seqs) == IF seqs = << >> THEN << >> ELSE Head(seqs) \o Flatten(Tail(seqs))

\* validateQuest with the manual checked before the hints
validateQuestManualFirst(quest, questIndex) ==
    LET prefix == <<"quest", questIndex>>
    IN FirstError(
        << validateNonEmpty(quest.Title, prefix \o <<"title">>),
           validateStringLength(quest.Title, MaxQuestTitle, prefix \o <<"title">>),
           validateNonEmpty(quest.DescriptionTask, prefix \o <<"task">>),
           validateStringLength(quest.DescriptionTask, MaxQuestDescriptionTask,
                                prefix \o <<"task">>),
           IF Len(quest.DescriptionLore) = 0
           THEN ValidationError(prefix \o <<"lore">>, "count") ELSE NoError >>
        \o EntryChecks(quest.DescriptionLore, MaxQuestDescriptionLore,
                       prefix \o <<"lore">>)
        \o << validateStringLength(quest.Manual.DataModel, MaxManualDataModel,
                                   prefix \o <<"manual.data_model">>),
              validateStringLength(quest.Manual.RegoSnippet, MaxManualRegoSnippet,
                                   prefix \o <<"manual.rego_snippet">>),
              validateStringLength(quest.Manual.ExternalLink, MaxManualExternalLink,
                                   prefix \o <<"manual.external_link">>) >>
        \o EntryChecks(quest.Hints, MaxQuestHint, prefix \o <<"hint">>)
        \o << validateOptionalLength(quest.Solution, MaxQuestSolution,
                                     prefix \o <<"solution">>),
              validateOptionalLength(quest.Template, MaxQuestTemplate,
                                     prefix \o <<"template">>),
              IF Len(quest.Tests) = 0
              THEN ValidationError(prefix \o <<"tests">>, "count") ELSE NoError >>
        \o Flatten([i \in 1..Len(quest.Tests) |->
                       TestChecks(quest.Tests[i], prefix \o <<"test", i - 1>>)]))

validateQuest(quest, questIndex) ==
    LET prefix == <<"quest", questIndex>>
    IN FirstError(
        << validateNonEmpty(quest.Title, prefix \o <<"title">>),
           validateStringLength(quest.Title, MaxQuestTitle, prefix \o <<"title">>),
           validateNonEmpty(quest.DescriptionTask, prefix \o <<"task">>),
           validateStringLength(quest.DescriptionTask, MaxQuestDescriptionTask,
                                prefix \o <<"task">>),
           IF Len(quest.DescriptionLore) = 0
           THEN ValidationError(prefix \o <<"lore">>, "count") ELSE NoError >>
        \o EntryChecks(quest.DescriptionLore, MaxQuestDescriptionLore,
                       prefix \o <<"lore">>)
        \o EntryChecks(quest.Hints, MaxQuestHint, prefix \o <<"hint">>)
        \o << validateOptionalLength(quest.Solution, MaxQuestSolution,
                                     prefix \o <<"solution">>),
              validateOptionalLength(quest.Template, MaxQuestTemplate,
                                     prefix \o <<"template">>),
              validateStringLength(quest.Manual.DataModel, MaxManualDataModel,
                                   prefix \o <<"manual.data_model">>),
              validateStringLength(quest.Manual.RegoSnippet, MaxManualRegoSnippet,
                                   prefix \o <<"manual.rego_snippet">>),
              validateStringLength(quest.Manual.ExternalLink, MaxManualExternalLink,
                                   prefix \o <<"manual.external_link">>),
              IF Len(quest.Tests) = 0
              THEN ValidationError(prefix \o <<"tests">>, "count") ELSE NoError >>
        \o Flatten([i \in 1..Len(quest.Tests) |->
                       TestChecks(quest.Tests[i], prefix \o <<"test", i - 1>>)]))

\* validateQuestPack: the checks of pack.Meta
MetaChecks(pack) ==
    << validateNonEmpty(pack.Meta.Title, <<"pack title">>),
       validateStringLength(pack.Meta.Title, MaxPackTitle, <<"pack title">>),
       validateNonEmpty(pack.Meta.Description, <<"pack description">>),
       validateStringLength(pack.Meta.Description, MaxPackDescription,
                            <<"pack description">>),
       validateNonEmpty(pack.Meta.Genre, <<"pack genre">>),
       validateStringLength(pack.Meta.Genre, MaxPackGenre, <<"pack genre">>),
       validateAlphanumericWithSpaces(pack.Meta.Genre, <<"pack genre">>),
       validateOptionalLength(pack.Meta.InitialObjective, MaxPackObjective,
                              <<"pack initial_objective">>),
       validateOptionalLength(pack.Meta.FinalObjective, MaxPackObjective,
                              <<"pack final_objective">>) >>

\* validateQuestPack: the checks of pack.UILabels
UILabelChecksWithoutFailureMessage(pack) ==
    << validateNonEmpty(pack.UILabels.GrimoireTitle, <<"ui_labels.grimoire_title">>),
       validateStringLength(pack.UILabels.GrimoireTitle, MaxUIGrimoireTitle,
                            <<"ui_labels.grimoire_title">>),
       validateNonEmpty(pack.UILabels.HintButton, <<"ui_labels.hint_button">>),
       validateStringLength(pack.UILabels.HintButton, MaxUIHintButton,
                            <<"ui_labels.hint_button">>),
       validateNonEmpty(pack.UILabels.VerifyButton, <<"ui_labels.verify_button">>),
       validateStringLength(pack.UILabels.VerifyButton, MaxUIVerifyButton,
                            <<"ui_labels.verify_button">>),
       validateStringLength(pack.UILabels.MessageSuccess, MaxUIMessageSuccess,
                            <<"ui_labels.message_success">>),
       validateStringLength(pack.UILabels.PerfectScoreMessage, MaxUIPerfectScoreMessage,
                            <<"ui_labels.perfect_score_message">>),
       validateStringLength(pack.UILabels.PerfectScoreButtonText, MaxUIPerfectScoreButton,
                            <<"ui_labels.perfect_score_button_text">>),
       validateStringLength(pack.UILabels.BeginAdventureButton, MaxUIBeginAdventureButton,
                            <<"ui_labels.begin_adventure_button">>) >>
UILabelChecks(pack) ==
    << validateNonEmpty(pack.UILabels.GrimoireTitle, <<"ui_labels.grimoire_title">>),
       validateStringLength(pack.UILabels.GrimoireTitle, MaxUIGrimoireTitle,
                            <<"ui_labels.grimoire_title">>),
       validateNonEmpty(pack.UILabels.HintButton, <<"ui_labels.hint_button">>),
       validateStringLength(pack.UILabels.HintButton, MaxUIHintButton,
                            <<"ui_labels.hint_button">>),
       validateNonEmpty(pack.UILabels.VerifyButton, <<"ui_labels.verify_button">>),
       validateStringLength(pack.UILabels.VerifyButton, MaxUIVerifyButton,
                            <<"ui_labels.verify_button">>),
       validateStringLength(pack.UILabels.MessageSuccess, MaxUIMessageSuccess,
                            <<"ui_labels.message_success">>),
       validateStringLength(pack.UILabels.MessageFailure, MaxUIMessageFailure,
                            <<"ui_labels.message_failure">>),
       validateStringLength(pack.UILabels.PerfectScoreMessage, MaxUIPerfectScoreMessage,
                            <<"ui_labels.perfect_score_message">>),
       validateStringLength(pack.UILabels.PerfectScoreButtonText, MaxUIPerfectScoreButton,
                            <<"ui_labels.perfect_score_button_text">>),
       validateStringLength(pack.UILabels.BeginAdventureButton, MaxUIBeginAdventureButton,
                            <<"ui_labels.begin_adventure_button">>) >>

validateQuestPack(pack) ==
    FirstError(
        MetaChecks(pack)
        \o UILabelChecks(pack)
        \o << IF Len(pack.Prologue) = 0
              THEN ValidationError(<<"prologue">>, "count") ELSE NoError >>
        \o EntryChecks(pack.Prologue, MaxPrologueItem, <<"prologue">>)
        \o << IF Len(pack.Epilogue) = 0
              THEN ValidationError(<<"epilogue">>, "count") ELSE NoError >>
        \o EntryChecks(pack.Epilogue, MaxEpilogueItem, <<"epilogue">>)
        \o << IF Len(pack.Quests) = 0
              THEN ValidationError(<<"pack quests">>, "count") ELSE NoError >>
        \o [i \in 1..Len(pack.Quests) |-> validateQuest(pack.Quests[i], i)])

----------------------------------------------------------------------------
(* The bytes handed to LoadPack: the valid pack of the repository's tests,   *)
(* with two quests, changed in at most MaxDefects places                     *)

\* the number of places in which the bytes of one LoadPack call differ from
\* the valid pack
MaxDefects == 2

\* the number of LoadPack calls made on one repository
MaxLoads == 3
\* the packs given to the solutionverifier command have up to MaxCmdQuests quests
MaxCmdQuests == 2

PackIDs == {"medieval", "scifi"}

QuestNumbers == {1, 2}

Defect(field, kind) == [field |-> field, kind |-> kind]

\* the changes of a string field: one character over the limit, 201
\* characters, empty, white space only, the limit in two-byte characters,
\* exactly the limit
MetaDefects ==
    {Defect(<<"pack title">>, k) :
        k \in {"over", "over200", "empty", "blank", "wide", "full"}}
    \cup {Defect(<<"pack description">>, k) : k \in {"over", "empty"}}
    \cup {Defect(<<"pack genre">>, k) : k \in {"over", "over200", "empty", "symbols"}}
    \cup {Defect(<<"pack initial_objective">>, "over"),
          Defect(<<"pack final_objective">>, "over")}

UILabelDefects ==
    {Defect(<<f>>, k) : f \in {"ui_labels.grimoire_title", "ui_labels.hint_button",
                               "ui_labels.verify_button"},
                        k \in {"over", "over200", "empty"}}
    \cup {Defect(<<"ui_labels.message_success">>, k) : k \in {"over", "empty"}}
    \cup {Defect(<<"ui_labels.message_failure">>, "over")}
    \cup {Defect(<<f>>, k) : f \in {"ui_labels.perfect_score_message",
                                     "ui_labels.perfect_score_button_text",
                                     "ui_labels.begin_adventure_button"},
                             k \in {"over", "over200"}}

NarrativeDefects ==
    {Defect(<<"prologue">>, "none"), Defect(<<"prologue", 1>>, "over"),
     Defect(<<"epilogue">>, "none"), Defect(<<"epilogue", 0>>, "over"),
     Defect(<<"pack quests">>, "none")}

QuestDefects(n) ==
    {Defect(<<"quest", n, f>>, k) : f \in {"title", "task"}, k \in {"over", "empty"}}
    \cup {Defect(<<"quest", n, f>>, "none") : f \in {"lore", "tests"}}
    \cup {Defect(<<"quest", n, f, 0>>, "over") : f \in {"lore", "hint"}}
    \cup {Defect(<<"quest", n, f>>, "over") :
             f \in {"solution", "template", "manual.data_model",
                    "manual.rego_snippet", "manual.external_link"}}
    \cup {Defect(<<"quest", n, "test", 0>>, k) : k \in {"payload", "input", "data"}}
    \cup {Defect(<<"quest", n, "query">>, "empty")}

\* bytes that are not JSON; a second quest with the ID of the first
OtherDefects == {Defect(<<"json">>, "garbage"), Defect(<<"quest", 2, "id">>, "same")}

Defects ==
    MetaDefects \cup UILabelDefects \cup NarrativeDefects
    \cup UNION {QuestDefects(n) : n \in QuestNumbers} \cup OtherDefects

\* the defects, in an order
RECURSIVE SeqOf(_)
SeqOf(S) ==
    IF S = {} THEN << >>
    ELSE LET x == CHOOSE y \in S : TRUE IN <<x>> \o SeqOf(S \ {x})
DefectSeq == SeqOf(Defects)

\* the choices of at most n defects, each in a field of its own: their places
\* in DefectSeq from the greatest down, then 0 for no defect
DefectPicks(n) ==
    {f \in [1..n -> 0..Len(DefectSeq)] :
        /\ \A i \in 1..(n - 1) : f[i + 1] = 0 \/ f[i] > f[i + 1]
        /\ \A i, j \in 1..n :
              (i < j /\ f[j] > 0) => DefectSeq[f[i]].field # DefectSeq[f[j]].field}
DefectsOf(f) == {DefectSeq[f[i]] : i \in {j \in DOMAIN f : f[j] > 0}}

\* the sets of at most n defects, each in a field of its own
DefectSets(n) == {DefectsOf(f) : f \in DefectPicks(n)}

Has(D, field, kind) == Defect(field, kind) \in D

\* a string field of the bytes
StringOf(D, field, max, valid) ==
    IF Has(D, field, "over") THEN Text(max + 1)
    ELSE IF Has(D, field, "empty") THEN Text(0)
    ELSE IF Has(D, field, "blank") THEN Spaces(3)
    ELSE IF Has(D, field, "wide") THEN WideText(max)
    ELSE IF Has(D, field, "full") THEN Text(max)
    ELSE IF Has(D, field, "symbols") THEN Symbols(5)
    ELSE IF Has(D, field, "over200") THEN Text(201)
    ELSE valid

\* a field of the bytes that is a list of n strings
EntriesOf(D, field, max, n) ==
    IF Has(D, field, "none") THEN << >>
    ELSE [i \in 1..n |-> StringOf(D, field \o <<i - 1>>, max, Text(5))]

TestsOf(D, n) ==
    IF Has(D, <<"quest", n, "tests">>, "none") THEN << >>
    ELSE LET f == <<"quest", n, "test", 0>>
         IN << [ID |-> 1,
                Payload |->
                  [Input |-> IF Has(D, f, "payload") THEN JSONValue(MaxTestPayloadBytes - 5)
                             ELSE IF Has(D, f, "input")
                             THEN JSONValue(MaxTestPayloadBytes + 1)
                             ELSE JSONValue(13),
                   Data |-> IF Has(D, f, "data") THEN JSONValue(MaxTestPayloadBytes + 1)
                            ELSE IF n = 2 THEN JSONValue(20) ELSE JSONNil],
                ExpectedOutcome |-> TRUE] >>

QuestOf(D, n) ==
    [ID |-> IF Has(D, <<"quest", n, "id">>, "same") THEN 1 ELSE n,
     Title |-> StringOf(D, <<"quest", n, "title">>, MaxQuestTitle, Text(7)),
     DescriptionLore |-> EntriesOf(D, <<"quest", n, "lore">>, MaxQuestDescriptionLore, 1),
     DescriptionTask |->
        StringOf(D, <<"quest", n, "task">>, MaxQuestDescriptionTask, Text(12)),
     Manual |->
        [DataModel |-> StringOf(D, <<"quest", n, "manual.data_model">>,
                                MaxManualDataModel, Text(2)),
         RegoSnippet |-> StringOf(D, <<"quest", n, "manual.rego_snippet">>,
                                  MaxManualRegoSnippet, Text(12)),
         ExternalLink |-> StringOf(D, <<"quest", n, "manual.external_link">>,
                                   MaxManualExternalLink, Text(18))],
     Hints |-> EntriesOf(D, <<"quest", n, "hint">>, MaxQuestHint, 1),
     Solution |-> StringOf(D, <<"quest", n, "solution">>, MaxQuestSolution, Text(0)),
     Tests |-> TestsOf(D, n),
     Template |-> StringOf(D, <<"quest", n, "template">>, MaxQuestTemplate, Text(0)),
     Query |-> StringOf(D, <<"quest", n, "query">>, 0, Text(16))]

\* the QuestPack the bytes describe; the id they carry is not a PackID
PackOf(D) ==
    [ID |-> "test-pack",
     Meta |->
        [Title |-> StringOf(D, <<"pack title">>, MaxPackTitle, Text(9)),
         Description |->
            StringOf(D, <<"pack description">>, MaxPackDescription, Text(11)),
         Genre |-> StringOf(D, <<"pack genre">>, MaxPackGenre, Text(4)),
         InitialObjective |->
            StringOf(D, <<"pack initial_objective">>, MaxPackObjective, Text(0)),
         FinalObjective |->
            StringOf(D, <<"pack final_objective">>, MaxPackObjective, Text(0))],
     UILabels |->
        [GrimoireTitle |->
            StringOf(D, <<"ui_labels.grimoire_title">>, MaxUIGrimoireTitle, Text(8)),
         HintButton |->
            StringOf(D, <<"ui_labels.hint_button">>, MaxUIHintButton, Text(4)),
         VerifyButton |->
            StringOf(D, <<"ui_labels.verify_button">>, MaxUIVerifyButton, Text(6)),
         MessageSuccess |->
            StringOf(D, <<"ui_labels.message_success">>, MaxUIMessageSuccess, Text(7)),
         MessageFailure |->
            StringOf(D, <<"ui_labels.message_failure">>, MaxUIMessageFailure, Text(7)),
         PerfectScoreMessage |->
            StringOf(D, <<"ui_labels.perfect_score_message">>,
                     MaxUIPerfectScoreMessage, Text(7)),
         PerfectScoreButtonText |->
            StringOf(D, <<"ui_labels.perfect_score_button_text">>,
                     MaxUIPerfectScoreButton, Text(4)),
         BeginAdventureButton |->
            StringOf(D, <<"ui_labels.begin_adventure_button">>,
                     MaxUIBeginAdventureButton, Text(5))],
     Prologue |-> EntriesOf(D, <<"prologue">>, MaxPrologueItem, 2),
     Epilogue |-> EntriesOf(D, <<"epilogue">>, MaxEpilogueItem, 1),
     Quests |-> IF Has(D, <<"pack quests">>, "none") THEN << >>
                ELSE [n \in QuestNumbers |-> QuestOf(D, n)],
     questMap |-> << >>]

\* json.Unmarshal(questData, &pack)
Unmarshal(D) ==
    IF Has(D, <<"json">>, "garbage")
    THEN [err |-> "invalid character", pack |-> PackOf({})]
    ELSE [err |-> "nil", pack |-> PackOf(D)]

----------------------------------------------------------------------------
(* QuestRepository *)

\* the error LoadPack returns: nil, a parse error or a validation error that
\* wraps the error of validateQuestPack
NilError == [kind |-> "nil", cause |-> NoError]
ParseError == [kind |-> "parse", cause |-> NoError]
ValidationFailed(cause) == [kind |-> "validation", cause |-> cause]

NoLoad == [id |-> "", defects |-> {}, err |-> NilError, existed |-> FALSE]

NewQuestRepository ==
    /\ packs = << >>
    /\ lret = NoLoad
    /\ loads = 0
    /\ entry = 0

\* LoadPack: for i := range pack.Quests { pack.questMap[pack.Quests[i].ID] =
\* &pack.Quests[i] }; a pointer to Quests[i] is the index i
\* the map assignment pack.questMap[id] = &pack.Quests[i]
QuestMapPutKeepingFirst(questMap, id, i) ==
    IF id \in DOMAIN questMap THEN questMap
    ELSE [k \in DOMAIN questMap \cup {id} |-> IF k = id THEN i ELSE questMap[k]]
QuestMapPut(questMap, id, i) ==
    [k \in DOMAIN questMap \cup {id} |-> IF k = id THEN i ELSE questMap[k]]

RECURSIVE QuestMapLoop(_, _, _)
QuestMapLoop(quests, i, questMap) ==
    IF i > Len(quests) THEN questMap
    ELSE QuestMapLoop(quests, i + 1, QuestMapPut(questMap, quests[i].ID, i))

\* LoadPack: r.packs[id] = &pack
StorePackAlone(m, id, pack) == [i \in {id} |-> pack]
StorePack(m, id, pack) ==
    [i \in DOMAIN m \cup {id} |-> IF i = id THEN pack ELSE m[i]]

\* LoadPack: both error returns come before r.packs[id] = &pack
PacksOnErrorDropped(m, id) == [i \in DOMAIN m \ {id} |-> m[i]]
PacksOnError(m, id) == m

\* LoadPack(id, questData): what it returns and the map it leaves
LoadPackResult(m, id, D) ==
    LET u == Unmarshal(D)
        pack == [u.pack EXCEPT !.ID = id]
        verr == validateQuestPack(pack)
    IN IF u.err # "nil" THEN [err |-> ParseError, packs |-> PacksOnError(m, id)]
       ELSE IF verr # NoError
       THEN [err |-> ValidationFailed(verr), packs |-> PacksOnError(m, id)]
       ELSE [err |-> NilError,
             packs |-> StorePack(m, id,
                          [pack EXCEPT !.questMap = QuestMapLoop(pack.Quests, 1, << >>)])]

NilPack == [ID |-> ""]
NilQuest == [ID |-> -1]

GetPack(id) ==
    IF id \in DOMAIN packs THEN [pack |-> packs[id], ok |-> TRUE]
    ELSE [pack |-> NilPack, ok |-> FALSE]

\* GetAllPacks: the packs of the map, in no particular order
GetAllPacks == {packs[id] : id \in DOMAIN packs}

GetNumberOfPacks == Cardinality(DOMAIN packs)

GetQuestByIDFirstQuest(packID, questID) ==
    IF packID \notin DOMAIN packs THEN [quest |-> NilQuest, ok |-> FALSE]
    ELSE [quest |-> packs[packID].Quests[1], ok |-> TRUE]
GetQuestByID(packID, questID) ==
    IF packID \notin DOMAIN packs THEN [quest |-> NilQuest, ok |-> FALSE]
    ELSE IF questID \in DOMAIN packs[packID].questMap
    THEN [quest |-> packs[packID].Quests[packs[packID].questMap[questID]], ok |-> TRUE]
    ELSE [quest |-> NilQuest, ok |-> FALSE]

----------------------------------------------------------------------------
(* cmd/solutionverifier: the command that verifies each quest's own solution *)

\* quest solutions, named like the submitted sources by what the module made
\* of them ("package play\nimport rego.v1\n\n" + q.Solution) does
CmdSolutions == {"allow_admin", "syntax_error", "fault_on_guest"}

\* the quests of a pack that LoadPack accepts: at least one test each
CmdQuestsNamed(n) ==
    {q \in QuestsNamed(n) : \A i \in 1..n : q.tests[i].id = i /\ q.tests[i].data = NilData}
CmdQuests == UNION {CmdQuestsNamed(n) : n \in 1..MaxTests}

\* pack.Quests as the command reads it: at least one quest
CmdPacks ==
    UNION {[1..n -> [quest : CmdQuests, solution : CmdSolutions]] : n \in 1..MaxCmdQuests}

\* the bytes of the file named by -questsfile
CmdInputs == {{}, {Defect(<<"json">>, "garbage")}}

CmdOff == [pc |-> "off", quests |-> << >>, q |-> 0, totalTests |-> 0,
           passedTests |-> 0, status |-> -1, log |-> << >>]

\* main: the number of rows with tr.Passed
RECURSIVE PassedCount(_)
PassedCount(rows) ==
    IF rows = << >> THEN 0
    ELSE (IF rows[1].Passed THEN 1 ELSE 0) + PassedCount(Tail(rows))

\* main: the exit status after the loop
ExitStatus(totalTests, passedTests) ==
    IF totalTests = 0 THEN 1
    ELSE IF passedTests = totalTests THEN 0
    ELSE 1

\* main: os.ReadFile, NewQuestRepository, repo.LoadPack("test-pack", data);
\* exit status 1 when the pack does not load
CmdLoad(D) ==
    /\ cmd.pc = "start"
    /\ LET r == LoadPackResult(packs, "test-pack", D)
       IN /\ packs' = r.packs
          /\ lret' = [id |-> "test-pack", defects |-> D, err |-> r.err,
                      existed |-> "test-pack" \in DOMAIN packs]
          /\ cmd' = IF r.err # NilError
                    THEN [cmd EXCEPT !.pc = "exit", !.status = 1]
                    ELSE [cmd EXCEPT !.pc = "loop", !.q = 1]
    /\ loads' = loads + 1
    /\ UNCHANGED <<rlVars, srvVars, entry>>

\* main: for _, q := range pack.Quests: the call verifier.Verify(ctx, &q,
\* regoCode) with ctx := context.Background(), up to Verify's loop
CmdVerify ==
    /\ cmd.pc = "loop"
    /\ cmd.q <= Len(cmd.quests)
    /\ hpc = "cmd"
    /\ hpc' = "verify"
    /\ vquest' = cmd.quests[cmd.q].quest
    /\ vcode' = cmd.quests[cmd.q].solution
    /\ vi' = 1
    /\ results' = << >>
    /\ allPassed' = TRUE
    /\ vret' = NoReturn
    /\ ctxErr' = "nil"
    /\ evals' = << >>
    /\ cmd' = [cmd EXCEPT !.pc = "verifying"]
    /\ UNCHANGED <<served, rlVars, repoVars>>

\* main: after Verify returns: continue on a Go error; otherwise count the rows
\* of result.Results into totalTests and passedTests and print result.Error
CmdAccount ==
    /\ cmd.pc = "verifying"
    /\ hpc = "ret"
    /\ cmd' = IF vret.err # "nil"
              THEN [cmd EXCEPT !.pc = "loop", !.q = @ + 1, !.log = Append(@, vret)]
              ELSE [cmd EXCEPT !.pc = "loop", !.q = @ + 1, !.log = Append(@, vret),
                               !.totalTests = @ + Len(vret.result.Results),
                               !.passedTests = @ + PassedCount(vret.result.Results)]
    /\ hpc' = "cmd"
    /\ vquest' = NoQuest
    /\ vcode' = ""
    /\ vi' = 0
    /\ results' = << >>
    /\ allPassed' = TRUE
    /\ vret' = NoReturn
    /\ evals' = << >>
    /\ UNCHANGED <<served, ctxErr, rlVars, repoVars>>

\* main: after the loop, os.Exit
CmdExit ==
    /\ cmd.pc = "loop"
    /\ cmd.q > Len(cmd.quests)
    /\ cmd' = [cmd EXCEPT !.pc = "exit",
                          !.status = ExitStatus(cmd.totalTests, cmd.passedTests)]
    /\ UNCHANGED <<rlVars, srvVars, repoVars>>

----------------------------------------------------------------------------
(* NewRateLimiter *)
InitRL ==
    /\ cfg \in [enabled : BOOLEAN, apiLimit : Limits, frontendLimit : Limits,
                windowDuration : Windows]
    /\ clients = << >>
    /\ clock = 0
    /\ mu = "free"
    /\ pc = [t \in Workers |-> "idle"]
    /\ loc = [t \in Workers |-> NoLoc]
    /\ sweepNow = -1
    /\ last = "none"
    /\ gwin = << >>
    /\ hist = HistOff
    /\ quiet = FALSE
    /\ SrvIdle
    /\ NewQuestRepository
    /\ cmd = CmdOff

\* time passes
Tick ==
    /\ clock < MaxTime
    /\ clock' = clock + Granule
    /\ UNCHANGED <<cfg, clients, mu, pc, loc, sweepNow, last, gwin, hist, quiet>>
    /\ UNCHANGED <<srvVars, repoVars, cmd>>

\* Middleware: c.Next() at once when the limiter is disabled; otherwise the key
\* and limit of the request, then checkLimit up to its read of the map:
\* rl.mu.Lock(); now := time.Now(); client, exists := rl.clients[clientKey]
Request(t, ip, path) ==
    /\ ~quiet
    /\ pc[t] = "idle"
    /\ IF ~cfg.enabled
       THEN /\ last' = "pass"
            /\ UNCHANGED <<mu, pc, loc>>
       ELSE /\ CanLock
            /\ mu' = t
            /\ pc' = [pc EXCEPT ![t] = "locked"]
            /\ LET key == ClientKey(ip, EndpointType(path))
                   l == [NoLoc EXCEPT !.key = key,
                                      !.class = <<ip, EndpointType(path)>>,
                                      !.limit = LimitFor(path),
                                      !.now = clock]
               IN loc' = [loc EXCEPT ![t] =
                             IF key \in DOMAIN clients
                             THEN [l EXCEPT !.exists = TRUE,
                                            !.count = clients[key].count,
                                            !.windowStart = clients[key].windowStart]
                             ELSE l]
            /\ UNCHANGED last
    /\ UNCHANGED <<cfg, clients, clock, sweepNow, gwin, hist, quiet>>
    /\ UNCHANGED <<srvVars, repoVars, cmd>>

\* the map entry after checkLimit's decision
CheckLimitEntryCountingDenied(l) ==
    IF WindowExpired(l) THEN [count |-> 1, windowStart |-> l.now]
    ELSE [count |-> l.count + 1, windowStart |-> l.windowStart]
CheckLimitEntry(l) ==
    IF WindowExpired(l) THEN [count |-> 1, windowStart |-> l.now]
    ELSE IF OverLimit(l) THEN [count |-> l.count, windowStart |-> l.windowStart]
    ELSE [count |-> l.count + 1, windowStart |-> l.windowStart]

\* checkLimit: the value returned
CheckLimitAllowedAlways(l) == TRUE
CheckLimitAllowed(l) == WindowExpired(l) \/ ~OverLimit(l)

\* the branch of checkLimit taken: a new client, an expired window, the limit
\* reached, or the increment
CheckLimitBranch(l) ==
    IF ~l.exists THEN "new"
    ELSE IF WindowExpired(l) THEN "reset"
    ELSE IF OverLimit(l) THEN "429"
    ELSE "inc"

\* checkLimit: the decision, the write, the deferred Unlock; then Middleware
\* answers 429 (AbortWithStatusJSON) or calls c.Next()
WriteUnlock(t) ==
    /\ pc[t] = "locked"
    /\ LET l == loc[t]
           allowed == CheckLimitAllowed(l)
       IN /\ clients' = [k \in DOMAIN clients \cup {l.key} |->
                            IF k = l.key THEN CheckLimitEntry(l) ELSE clients[k]]
          /\ gwin' = GhostAfter(l.class, l.now, allowed)
          /\ hist' = HistAfter(l.class, l.now, allowed)
          /\ last' = CheckLimitBranch(l)
    /\ mu' = IF mu = t THEN "free" ELSE mu
    /\ pc' = [pc EXCEPT ![t] = "idle"]
    /\ loc' = [loc EXCEPT ![t] = NoLoc]
    /\ UNCHANGED <<cfg, clock, sweepNow, quiet>>
    /\ UNCHANGED <<srvVars, repoVars, cmd>>

\* cleanupLoop: the ticker fires; rl.mu.Lock(); now := time.Now()
SweepLock ==
    /\ cfg.enabled
    /\ sweepNow = -1
    /\ CanLock
    /\ mu' = "sweeper"
    /\ sweepNow' = clock
    /\ UNCHANGED <<cfg, clients, clock, pc, loc, last, gwin, hist, quiet>>
    /\ UNCHANGED <<srvVars, repoVars, cmd>>

\* cleanupLoop: for key, client := range rl.clients { if ... { delete(...) } }
\* leaves the keys whose entry is not stale
SweepSurvivorsNone(now) == {}
SweepSurvivors(now) == {j \in DOMAIN clients : ~Stale(now, clients[j])}

\* cleanupLoop: the delete loop and rl.mu.Unlock()
SweepRun ==
    /\ sweepNow # -1
    /\ clients' = [k \in SweepSurvivors(sweepNow) |-> clients[k]]
    /\ last' = "sweep"
    /\ mu' = IF mu = "sweeper" THEN "free" ELSE mu
    /\ sweepNow' = -1
    /\ UNCHANGED <<cfg, clock, pc, loc, gwin, hist, quiet>>
    /\ UNCHANGED <<srvVars, repoVars, cmd>>

\* the clients stop sending requests
Stop ==
    /\ ~quiet
    /\ quiet' = TRUE
    /\ UNCHANGED <<cfg, clients, clock, mu, pc, loc, sweepNow, last, gwin, hist>>
    /\ UNCHANGED <<srvVars, repoVars, cmd>>

----------------------------------------------------------------------------
(* Helpers of the properties *)

\* worker t completes a checkLimit call in this step
CheckDone(t) == pc[t] = "locked" /\ pc'[t] = "idle"

\* the background sweep completes a run in this step
SweepDone == sweepNow # -1 /\ sweepNow' = -1

Allowed(outcome) == outcome \in {"new", "reset", "inc"}

LimitOfClass(class) == IF class[2] = "api" THEN cfg.apiLimit ELSE cfg.frontendLimit

NextRL ==
    \/ Tick
    \/ \E t \in Workers, ip \in ClientIPs, path \in Paths : Request(t, ip, path)
    \/ \E t \in Workers : WriteUnlock(t)
    \/ SweepLock
    \/ SweepRun

----------------------------------------------------------------------------
(* The HTTP server: New, SetupRoutes, Handler.RegisterRoutes *)

\* New: r.Use(gin.Recovery()), r.Use(StructuredLogger()); SetupRoutes:
\* s.router.Use(SecurityHeaders()), Use(BodySizeLimit()), Use(setupCORS(...))
EngineMiddleware ==
    <<"Recovery", "StructuredLogger", "SecurityHeaders", "BodySizeLimit", "CORS">>

\* SetupRoutes: apiGroup := s.router.Group("/api"); apiGroup.Use(Auth(s.config))
ApiGroupMiddleware == EngineMiddleware \o <<"Auth">>

\* Handler.RegisterRoutes(apiGroup)
ApiRoutes ==
    { [route |-> "GET /api/packs", chain |-> ApiGroupMiddleware,
       handler |-> "GetPacks"],
      [route |-> "GET /api/packs/:pack_id", chain |-> ApiGroupMiddleware,
       handler |-> "GetPack"],
      [route |-> "GET /api/packs/:pack_id/quests/:quest_id/test-payload",
       chain |-> ApiGroupMiddleware, handler |-> "GetTestPayload"],
      [route |-> "POST /api/verify", chain |-> ApiGroupMiddleware,
       handler |-> "VerifySolution"] }

\* SetupRoutes, setupQuestRoutes, setupFrontendRoutes: the routes of the engine
Routes ==
    ApiRoutes \cup
    { [route |-> "GET /config", chain |-> EngineMiddleware, handler |-> "Config"],
      [route |-> "GET /health", chain |-> EngineMiddleware, handler |-> "HealthCheck"],
      [route |-> "GET /quests/:pack/assets/:assetpath", chain |-> EngineMiddleware,
       handler |-> "serveQuestAssets"],
      [route |-> "NoRoute", chain |-> EngineMiddleware, handler |-> "SPAHandler"] }

ApiHandlers == {r.handler : r \in ApiRoutes}

\* middleware that can abort a request instead of calling c.Next()
Blockers == {"CORS", "Auth"}

\* the middleware of a chain that runs when `blockedBy` aborts the request
RECURSIVE GatesRun(_, _)
GatesRun(chain, blockedBy) ==
    IF chain = << >> THEN << >>
    ELSE IF Head(chain) = blockedBy THEN <<Head(chain)>>
    ELSE <<Head(chain)>> \o GatesRun(Tail(chain), blockedBy)

Range(f) == {f[i] : i \in DOMAIN f}

\* bodies of POST /api/verify: not JSON, naming no loaded quest, or naming a
\* quest of the repository together with a policy source
VerifyBodies ==
    {[kind |-> "invalid", quest |-> NoQuest, code |-> ""],
     [kind |-> "unknown", quest |-> NoQuest, code |-> ""]}
    \cup [kind : {"ok"}, quest : Quests, code : Codes]

\* the bodies that matter to a request: only VerifySolution reads the body
BodiesOf(r, blockedBy) ==
    IF r.handler = "VerifySolution" /\ blockedBy \notin Range(r.chain)
    THEN VerifyBodies
    ELSE {[kind |-> "invalid", quest |-> NoQuest, code |-> ""]}

\* gin dispatches a request: the chain of its route, then the handler.
\* VerifySolution runs up to its call of Verify, Verify up to its loop.
Serve(r, blockedBy, body) ==
    /\ hpc = "idle"
    /\ LET gates == GatesRun(r.chain, blockedBy)
           reached == blockedBy \notin Range(r.chain)
           s == [route |-> r.route, gates |-> gates,
                 handler |-> IF reached THEN r.handler ELSE "none",
                 status |-> 0]
           calls == reached /\ r.handler = "VerifySolution" /\ body.kind = "ok"
       IN /\ served' =
                IF ~reached
                THEN [s EXCEPT !.status = IF blockedBy = "Auth" THEN 401 ELSE 403]
                ELSE IF r.handler # "VerifySolution" THEN [s EXCEPT !.status = 200]
                ELSE IF body.kind = "invalid" THEN [s EXCEPT !.status = 400]
                ELSE IF body.kind = "unknown" THEN [s EXCEPT !.status = 404]
                ELSE s
          /\ hpc' = IF calls THEN "verify" ELSE "idle"
          /\ vquest' = IF calls THEN body.quest ELSE NoQuest
          /\ vcode' = IF calls THEN body.code ELSE ""
          /\ vi' = IF calls THEN 1 ELSE 0
    /\ results' = << >>
    /\ allPassed' = TRUE
    /\ vret' = NoReturn
    /\ ctxErr' = "nil"
    /\ evals' = << >>
    /\ UNCHANGED <<rlVars, repoVars, cmd>>

\* Verify: one iteration of  for _, test := range quest.Tests
VerifyIter ==
    /\ hpc = "verify"
    /\ vi <= Len(vquest.tests)
    /\ LET test == vquest.tests[vi]
       IN \E out \in EvalOutcomes(vcode, vquest.query, test, ctxErr) :
            /\ evals' = Append(evals, out)
            /\ IF out.err # "nil"
               THEN /\ vret' = ErrorReturn(out.err, ctxErr)
                    /\ hpc' = "ret"
                    /\ UNCHANGED <<vi, results, allPassed>>
               ELSE LET actual == ActualOf(out.rs)
                        passed == PassedOf(actual, test.expected)
                    IN /\ allPassed' = AllPassedAfter(allPassed, passed)
                       /\ results' = Append(results,
                              [TestID |-> test.id, Passed |-> passed,
                               Expected |-> test.expected, Actual |-> actual,
                               Input |-> test.input])
                       /\ vi' = vi + 1
                       /\ UNCHANGED <<vret, hpc>>
    /\ UNCHANGED <<served, vquest, vcode, ctxErr>>
    /\ UNCHANGED <<rlVars, repoVars, cmd>>

\* Verify: the return after the loop
VerifyFinish ==
    /\ hpc = "verify"
    /\ vi > Len(vquest.tests)
    /\ vret' = [result |-> QuestVerificationResult(allPassed, << >>, results),
                err |-> "nil"]
    /\ hpc' = "ret"
    /\ UNCHANGED <<served, vquest, vcode, vi, results, allPassed, ctxErr, evals>>
    /\ UNCHANGED <<rlVars, repoVars, cmd>>

\* VerifySolution: if err != nil { 500 "Internal server error" } else 200
StatusAfterVerify(ret) == IF ret.err # "nil" THEN 500 ELSE 200

\* VerifySolution after Verify: 500 on a Go error, else 200 with the result
Respond ==
    /\ hpc = "ret"
    /\ served' = [served EXCEPT !.status = StatusAfterVerify(vret)]
    /\ hpc' = "idle"
    /\ vquest' = NoQuest
    /\ vcode' = ""
    /\ vi' = 0
    /\ results' = << >>
    /\ allPassed' = TRUE
    /\ vret' = NoReturn
    /\ ctxErr' = "nil"
    /\ evals' = << >>
    /\ UNCHANGED <<rlVars, repoVars, cmd>>

\* the caller's context is cancelled (the client goes away) during Verify
Cancel ==
    /\ hpc = "verify"
    /\ ctxErr = "nil"
    /\ ctxErr' = "context canceled"
    /\ UNCHANGED <<hpc, served, vquest, vcode, vi, results, allPassed, vret, evals>>
    /\ UNCHANGED <<rlVars, repoVars, cmd>>

\* main: config.Load, http.New, SetupRoutes; the limiter's configuration
InitServe ==
    /\ InitRL
    /\ cfg.apiLimit = 1
    /\ cfg.frontendLimit = 1
    /\ cfg.windowDuration = Granule

NextServe ==
    \/ /\ hpc = "idle"
       /\ \E r \in Routes, blockedBy \in Blockers \cup {"none"} :
             \E body \in BodiesOf(r, blockedBy) : Serve(r, blockedBy, body)
    \/ VerifyIter
    \/ VerifyFinish
    \/ Respond
    \/ Cancel

\* a call of LoadPack
LoadPack(id, D) ==
    /\ LET r == LoadPackResult(packs, id, D)
       IN /\ packs' = r.packs
          /\ lret' = [id |-> id, defects |-> D, err |-> r.err,
                      existed |-> id \in DOMAIN packs]
    /\ loads' = loads + 1
    /\ UNCHANGED <<rlVars, srvVars, entry, cmd>>

\* the bytes loaded in the runs of several LoadPack calls
StartupInputs ==
    {{}, {Defect(<<"pack title">>, "full")}, {Defect(<<"pack title">>, "over")},
     {Defect(<<"quest", 2, "id">>, "same")}, {Defect(<<"quest", 1, "tests">>, "none")},
     {Defect(<<"quest", 1, "query">>, "empty")}, {Defect(<<"json">>, "garbage")}}

\* one LoadPack call on a new repository, with any bytes
NextLoad ==
    /\ lret = NoLoad
    /\ \E id \in PackIDs, D \in DefectSets(MaxDefects) : LoadPack(id, D)

\* up to MaxLoads LoadPack calls on one repository
NextRepo ==
    /\ loads < MaxLoads
    /\ \E id \in PackIDs, D \in StartupInputs : LoadPack(id, D)

\* main: the process configuration
InitRepo ==
    /\ InitServe
    /\ cfg.enabled

----------------------------------------------------------------------------
(* main of the server process *)

\* os.ReadDir(questsDir): the pack directories, sorted by name
Entries == <<"medieval", "scifi">>

\* main: the loop goes on to the next entry after a failed load (continue)
NextEntryStoppingOnError(e, err) == IF err # NilError THEN Len(Entries) ELSE e + 1
NextEntry(e, err) == e + 1

\* main: one iteration of  for _, entry := range entries: the file of the
\* pack cannot be read and the entry is skipped, or LoadPack is called and a
\* failure is logged
MainLoadEntry(readable, D) ==
    /\ hpc = "startup"
    /\ entry < Len(Entries)
    /\ IF ~readable
       THEN /\ entry' = entry + 1
            /\ UNCHANGED <<packs, lret, loads>>
       ELSE LET id == Entries[entry + 1]
                r == LoadPackResult(packs, id, D)
            IN /\ packs' = r.packs
               /\ lret' = [id |-> id, defects |-> D, err |-> r.err,
                           existed |-> id \in DOMAIN packs]
               /\ loads' = loads + 1
               /\ entry' = NextEntry(entry, r.err)
    /\ UNCHANGED <<rlVars, srvVars, cmd>>

\* main: after the loop, NewVerifier, NewHandler, New, SetupRoutes and
\* srv.Router().Run(addr): the server starts handling requests
MainRun ==
    /\ hpc = "startup"
    /\ entry = Len(Entries)
    /\ hpc' = "idle"
    /\ UNCHANGED <<served, vquest, vcode, vi, results, allPassed, vret, ctxErr, evals>>
    /\ UNCHANGED <<rlVars, repoVars, cmd>>

\* the bodies of POST /api/verify that end in VerifySolution itself
RejectedBodies == {b \in VerifyBodies : b.kind # "ok"}

\* the process from its start: config.Load, NewQuestRepository
InitMain ==
    /\ cfg = [enabled |-> TRUE, apiLimit |-> 1, frontendLimit |-> 1,
              windowDuration |-> Granule]
    /\ clients = << >>
    /\ clock = 0
    /\ mu = "free"
    /\ pc = [t \in Workers |-> "idle"]
    /\ loc = [t \in Workers |-> NoLoc]
    /\ sweepNow = -1
    /\ last = "none"
    /\ gwin = << >>
    /\ hist = HistOff
    /\ quiet = FALSE
    /\ hpc = "startup"
    /\ served = NoServed
    /\ vquest = NoQuest
    /\ vcode = ""
    /\ vi = 0
    /\ results = << >>
    /\ allPassed = TRUE
    /\ vret = NoReturn
    /\ ctxErr = "nil"
    /\ evals = << >>
    /\ NewQuestRepository
    /\ cmd = CmdOff

NextMain ==
    \/ /\ hpc = "startup"
       /\ \E readable \in BOOLEAN :
             \E D \in (IF readable THEN StartupInputs ELSE {{}}) :
                MainLoadEntry(readable, D)
    \/ MainRun
    \/ /\ hpc = "idle"
       /\ \E r \in Routes, blockedBy \in Blockers \cup {"none"}, body \in RejectedBodies :
             Serve(r, blockedBy, body)

vars == <<cfg, clients, clock, mu, pc, loc, sweepNow, last, gwin, hist, quiet,
          hpc, served, vquest, vcode, vi, results, allPassed, vret, ctxErr, evals,
          packs, lret, loads, entry, cmd>>

Init == InitRL
Next == NextRL
Spec == Init /\ [][Next]_vars

\* The limiter enabled, and clients that may stop sending requests.  The ticker
\* of cleanupLoop fires every minute for the life of the process, the Go
\* scheduler runs every runnable goroutine, and time passes.
InitLive ==
    /\ InitRL
    /\ cfg.enabled
    /\ cfg.apiLimit = 1
    /\ cfg.frontendLimit = MaxLimit

NextLive == NextRL \/ Stop

SpecServe == InitServe /\ [][NextServe]_vars

SpecLoad == InitRepo /\ [][NextLoad]_vars

SpecRepo == InitRepo /\ [][NextRepo]_vars

SpecMain == InitMain /\ [][NextMain]_vars

\* The limiter enabled, with the allowed checks recorded by timestamp
InitWindow ==
    /\ cfg \in [enabled : {TRUE}, apiLimit : Limits, frontendLimit : Limits,
                windowDuration : Windows]
    /\ clients = << >>
    /\ clock = 0
    /\ mu = "free"
    /\ pc = [t \in Workers |-> "idle"]
    /\ loc = [t \in Workers |-> NoLoc]
    /\ sweepNow = -1
    /\ last = "none"
    /\ gwin = << >>
    /\ hist = HistOn
    /\ quiet = FALSE
    /\ SrvIdle
    /\ NewQuestRepository
    /\ cmd = CmdOff

SpecWindow == InitWindow /\ [][NextRL]_vars

\* the solutionverifier command started on a file
InitCmd ==
    /\ cfg = [enabled |-> FALSE, apiLimit |-> 1, frontendLimit |-> 1,
              windowDuration |-> Granule]
    /\ clients = << >>
    /\ clock = 0
    /\ mu = "free"
    /\ pc = [t \in Workers |-> "idle"]
    /\ loc = [t \in Workers |-> NoLoc]
    /\ sweepNow = -1
    /\ last = "none"
    /\ gwin = << >>
    /\ hist = HistOff
    /\ quiet = FALSE
    /\ hpc = "cmd"
    /\ served = NoServed
    /\ vquest = NoQuest
    /\ vcode = ""
    /\ vi = 0
    /\ results = << >>
    /\ allPassed = TRUE
    /\ vret = NoReturn
    /\ ctxErr = "nil"
    /\ evals = << >>
    /\ NewQuestRepository
    /\ cmd \in {[CmdOff EXCEPT !.pc = "start", !.quests = P] : P \in CmdPacks}

NextCmd ==
    \/ \E D \in CmdInputs : CmdLoad(D)
    \/ CmdVerify
    \/ VerifyIter
    \/ VerifyFinish
    \/ CmdAccount
    \/ CmdExit

SpecCmd == InitCmd /\ [][NextCmd]_vars

SpecLive ==
    /\ InitLive
    /\ [][NextLive]_vars
    /\ WF_vars(Tick)
    /\ WF_vars(SweepLock)
    /\ WF_vars(SweepRun)
    /\ \A t \in Workers : WF_vars(WriteUnlock(t))

----------------------------------------------------------------------------
(* C1 as stated: for every limit L the n-th check of a window is allowed    *)
(* exactly when n <= L, and the first check of a window leaves (1, now).    *)
C1_ExactlyLPerWindow ==
    [][\A t \in Workers : CheckDone(t) =>
          LET l == loc[t]
              n == gwin'[l.class].checks
          IN /\ Allowed(last') <=> (n <= l.limit)
             /\ (n = 1) => clients'[l.key] = [count |-> 1, windowStart |-> l.now]
      ]_vars

(* C1 amended: for every limit L >= 1 the n-th check of a window (a window  *)
(* starts at the first check with no window before it or at or after        *)
(* windowStart + W) is allowed exactly when n <= L; the first check of a    *)
(* window is allowed and leaves the entry (count = 1, windowStart = now).   *)
C1_FixedWindow ==
    [][\A t \in Workers : (CheckDone(t) /\ loc[t].limit >= 1) =>
          LET l == loc[t]
              n == gwin'[l.class].checks
          IN /\ Allowed(last') <=> (n <= l.limit)
             /\ (n = 1) => /\ Allowed(last')
                           /\ clients'[l.key] = [count |-> 1, windowStart |-> l.now]
      ]_vars

\* a window that began after time 0 has seen L allowed checks and a denied one
C1_Witness ==
    \E k \in DOMAIN gwin :
        /\ last = "429"
        /\ LimitOfClass(k) >= 1
        /\ gwin[k].start > 0
        /\ gwin[k].allowed = LimitOfClass(k)
        /\ gwin[k].checks > LimitOfClass(k)


----------------------------------------------------------------------------
\* the critical sections of checkLimit and cleanupLoop hold rl.mu
MutexHeld ==
    /\ \A t \in Workers : pc[t] = "locked" => mu = t
    /\ sweepNow # -1 => mu = "sweeper"

\* every entry counts exactly the allowed checks of its window
NoLostIncrement ==
    \A k \in DOMAIN clients :
        /\ k \in DOMAIN gwin
        /\ clients[k].windowStart = gwin[k].start
        /\ clients[k].count = gwin[k].allowed

(* C2 as stated: the map is only touched under the mutex, no increment is   *)
(* lost and no more than L checks are allowed within one window.            *)
C2_AtMostLUnderMutex ==
    /\ MutexHeld
    /\ NoLostIncrement
    /\ \A k \in DOMAIN gwin : gwin[k].allowed <= LimitOfClass(k)

(* C2 amended: every read and write of the client map happens while the     *)
(* goroutine holds the mutex; for every interleaving of checks and sweeps   *)
(* no increment is lost and no more than max(1, L) checks are allowed       *)
(* within one window.                                                       *)
C2_SerializedUnderMutex ==
    /\ MutexHeld
    /\ NoLostIncrement
    /\ \A k \in DOMAIN gwin : gwin[k].allowed <= Max2(1, LimitOfClass(k))

\* a worker holds the mutex inside checkLimit on a key that was incremented
\* before, in the window it read, while the other worker serves no request
C2_Witness ==
    \E t \in Workers, u \in Workers :
        /\ t # u
        /\ pc[t] = "locked" /\ pc[u] = "idle"
        /\ loc[t].exists
        /\ loc[t].count >= 1
        /\ loc[t].count < loc[t].limit
        /\ loc[t].now - loc[t].windowStart < cfg.windowDuration
        /\ ~ENABLED Request(u, loc[t].key[1], PathApiVerify)

----------------------------------------------------------------------------
(* C3: API requests (path prefix /api) and the other requests of a client   *)
(* are counted under two keys with their own limits: a request changes      *)
(* only the entry of its own endpoint class, and it is denied exactly when  *)
(* the checks of its own class have used up that class's budget in the      *)
(* current window of that class.                                            *)
C3_IndependentBudgets ==
    [][\A t \in Workers : CheckDone(t) =>
          LET l == loc[t]
              own == l.class
              inWindow == /\ own \in DOMAIN gwin
                          /\ l.now - gwin[own].start < cfg.windowDuration
          IN /\ \A k \in Keys \ {own} :
                   /\ (k \in DOMAIN clients') = (k \in DOMAIN clients)
                   /\ k \in DOMAIN clients => clients'[k] = clients[k]
             /\ \A k \in DOMAIN gwin \ {own} : gwin'[k] = gwin[k]
             /\ (last' = "429") <=>
                   (inWindow /\ gwin[own].allowed >= LimitOfClass(own))
      ]_vars

\* in one window the API budget of a client is used up and was denied, while
\* its other requests were all allowed, more of them than the API limit
C3_Witness ==
    \E ip \in ClientIPs :
        LET a == <<ip, "api">>
            f == <<ip, "frontend">>
        IN /\ a \in DOMAIN gwin /\ f \in DOMAIN gwin
           /\ gwin[a].start = gwin[f].start
           /\ cfg.apiLimit >= 1
           /\ gwin[a].checks > gwin[a].allowed
           /\ gwin[f].allowed = gwin[f].checks
           /\ gwin[f].allowed > cfg.apiLimit
           /\ last \in {"inc", "new", "reset"}

----------------------------------------------------------------------------
(* C4: a run of the sweep deletes exactly the entries whose windowStart is  *)
(* older than max(2*window, 1 minute) at the time of the sweep, leaves all  *)
(* other entries unchanged, and never deletes an entry whose window has not *)
(* yet elapsed.                                                             *)
C4_SweepDeletesExactlyStale ==
    [][SweepDone =>
          LET threshold == IF 2 * cfg.windowDuration >= OneMinute
                           THEN 2 * cfg.windowDuration ELSE OneMinute
          IN /\ DOMAIN clients' \subseteq DOMAIN clients
             /\ \A k \in DOMAIN clients :
                   IF sweepNow - clients[k].windowStart > threshold
                   THEN /\ k \notin DOMAIN clients'
                        /\ sweepNow - clients[k].windowStart >= cfg.windowDuration
                   ELSE /\ k \in DOMAIN clients'
                        /\ clients'[k] = clients[k]
      ]_vars

\* a sweep has evicted one key and kept another
C4_Witness ==
    /\ last = "sweep"
    /\ \E k \in DOMAIN gwin : k \notin DOMAIN clients
    /\ \E k \in DOMAIN clients : clock - clients[k].windowStart <= Expiration

----------------------------------------------------------------------------
(* C7: ABSENT -> ACTIVE(count, windowStart).  checkLimit never removes a    *)
(* key (allowed or denied, the key exists after the check), an elapsed      *)
(* window moves the key to ACTIVE(1, now), and a key leaves the map only in *)
(* a run of the background sweep.                                           *)
C7_KeyStateMachine ==
    [][/\ \A t \in Workers : CheckDone(t) =>
             /\ DOMAIN clients \subseteq DOMAIN clients'
             /\ loc[t].key \in DOMAIN clients'
             /\ (loc[t].exists /\ loc[t].now - loc[t].windowStart >= cfg.windowDuration)
                   => clients'[loc[t].key] = [count |-> 1, windowStart |-> loc[t].now]
       /\ (\E k \in DOMAIN clients : k \notin DOMAIN clients') => SweepDone
      ]_vars

\* a check has found the window of an existing key elapsed and reset it
C7_Witness ==
    \E k \in DOMAIN clients :
        /\ last = "reset"
        /\ cfg.windowDuration > 0
        /\ clients[k] = [count |-> 1, windowStart |-> clock]
        /\ clock > 0


----------------------------------------------------------------------------
\* key k is in the map, no request is coming or in flight, and the clock of
\* the model runs long enough for the entry to become stale
Abandoned(k) ==
    /\ quiet
    /\ \A t \in Workers : pc[t] = "idle"
    /\ k \in DOMAIN clients
    /\ clients[k].windowStart + Expiration + Granule <= MaxTime

(* C5: with the limiter enabled and the sweep ticker firing fairly, the     *)
(* entry of every client key that receives no more requests is eventually   *)
(* removed from the client map.                                             *)
C5_AbandonedKeysEvicted ==
    \A k \in Keys : Abandoned(k) ~> (k \notin DOMAIN clients)

\* the clients have stopped and a sweep has emptied the map of their keys
C5_Witness ==
    /\ quiet
    /\ last = "sweep"
    /\ DOMAIN gwin # {}
    /\ DOMAIN clients = {}


----------------------------------------------------------------------------
(* C6: with rate limiting enabled, every request that reaches a content or  *)
(* verification handler (GetPacks, GetPack, GetTestPayload, VerifySolution) *)
(* has passed the rate limiter's Middleware first.                          *)
C6_ApiHandlersBehindRateLimiter ==
    (cfg.enabled /\ served.handler \in ApiHandlers)
        => "RateLimiter" \in Range(served.gates)

----------------------------------------------------------------------------
(* Helpers of the Verify properties *)

\* Verify has returned to its caller
Returned == hpc = "ret"

NumTests == Len(vquest.tests)

\* every test case was evaluated and no evaluation failed
AllEvaluated ==
    /\ Len(evals) = NumTests
    /\ \A i \in 1..Len(evals) : evals[i].err = "nil"

\* evaluation i produced the boolean b
Yields(i, b) ==
    /\ evals[i].err = "nil"
    /\ Len(evals[i].rs) > 0
    /\ Len(evals[i].rs[1].Expressions) > 0
    /\ evals[i].rs[1].Expressions[1].Value = BoolValue(b)

(* C8: when every evaluation succeeds and yields the test's ExpectedOutcome *)
(* Verify returns a nil error, Passed = true, an empty Error and exactly N  *)
(* per-test results in the order of quest.Tests, each with Passed = true    *)
(* and the TestID of its test case.                                         *)
C8_AllPassing ==
    (Returned /\ Len(evals) = NumTests
              /\ \A i \in 1..NumTests : Yields(i, vquest.tests[i].expected))
        => /\ vret.err = "nil"
           /\ ~vret.result.isNil
           /\ vret.result.Passed
           /\ vret.result.Error = << >>
           /\ Len(vret.result.Results) = NumTests
           /\ \A i \in 1..NumTests :
                 /\ vret.result.Results[i].Passed
                 /\ vret.result.Results[i].TestID = vquest.tests[i].id

\* a quest of MaxTests tests with different ids and different expected outcomes,
\* all satisfied
C8_Witness ==
    /\ Returned
    /\ NumTests = MaxTests
    /\ Len(evals) = NumTests
    /\ \A i \in 1..NumTests : Yields(i, vquest.tests[i].expected)
    /\ vquest.tests[1].id # vquest.tests[2].id
    /\ vquest.tests[1].expected # vquest.tests[2].expected
    /\ vret.result.Passed

----------------------------------------------------------------------------
\* submissions that do not compile
CompileFailing == {"syntax_error"}

ZeroResultsAndError ==
    /\ vret.err = "nil"
    /\ ~vret.result.isNil
    /\ ~vret.result.Passed
    /\ vret.result.Error # << >>
    /\ Len(vret.result.Results) = 0

----------------------------------------------------------------------------
(* C10: when Verify completes all test cases without a terminal error, the  *)
(* overall Passed is the AND of the per-test Passed flags, each per-test    *)
(* Passed holds exactly when its Actual equals the test's ExpectedOutcome,  *)
(* and a mismatch is a row with Passed = false (with the test's Expected,   *)
(* the Actual and the original Input), never an Error or a Go error.        *)
C10_PassedIsConjunction ==
    (Returned /\ AllEvaluated) =>
        /\ vret.err = "nil"
        /\ ~vret.result.isNil
        /\ vret.result.Error = << >>
        /\ Len(vret.result.Results) = NumTests
        /\ vret.result.Passed = (\A i \in 1..NumTests : vret.result.Results[i].Passed)
        /\ \A i \in 1..NumTests :
              LET row == vret.result.Results[i]
              IN /\ row.Passed = (row.Actual = vquest.tests[i].expected)
                 /\ row.Expected = vquest.tests[i].expected
                 /\ row.Input = vquest.tests[i].input
                 /\ row.Actual = ActualOf(evals[i].rs)

\* a run whose first test mismatches and whose last test passes
C10_Witness ==
    /\ Returned
    /\ AllEvaluated
    /\ NumTests = MaxTests
    /\ ~vret.result.Results[1].Passed
    /\ vret.result.Results[NumTests].Passed
    /\ ~vret.result.Passed
    /\ vret.err = "nil"

----------------------------------------------------------------------------
\* evaluation i succeeded without a boolean decision: an empty result set, a
\* result without expressions, or a value that is not a boolean
Undecided(i) ==
    /\ evals[i].err = "nil"
    /\ \/ Len(evals[i].rs) = 0
       \/ Len(evals[i].rs[1].Expressions) = 0
       \/ evals[i].rs[1].Expressions[1].Value.type # "bool"

(* C11: when an evaluation succeeds but its query result is absent or not   *)
(* a boolean, the test's Actual is false and no error is raised (the test   *)
(* gets its row, and a run of such tests returns a nil Go error and an      *)
(* empty Error); the test passes exactly when its ExpectedOutcome is false. *)
C11_UndecidedIsFalse ==
    /\ \A i \in 1..Len(evals) :
          Undecided(i) =>
              /\ Len(results) >= i
              /\ results[i].Actual = FALSE
              /\ results[i].Passed = (vquest.tests[i].expected = FALSE)
              /\ results[i].TestID = vquest.tests[i].id
    /\ (Returned /\ Len(evals) = NumTests /\ \A i \in 1..NumTests : Undecided(i))
          => /\ vret.err = "nil"
             /\ ~vret.result.isNil
             /\ vret.result.Error = << >>
             /\ Len(vret.result.Results) = NumTests
             /\ vret.result.Passed = (\A i \in 1..NumTests : ~vquest.tests[i].expected)

\* a submission that returns a string, verified against a test that expects
\* true (failed) and a test that expects false (passed)
C11_Witness ==
    /\ Returned
    /\ NumTests = MaxTests
    /\ Len(evals) = NumTests
    /\ \A i \in 1..NumTests : Undecided(i)
    /\ evals[1].rs # << >>
    /\ evals[1].rs[1].Expressions # << >>
    /\ vquest.tests[1].expected
    /\ ~vquest.tests[2].expected
    /\ ~vret.result.Results[1].Passed
    /\ vret.result.Results[2].Passed

----------------------------------------------------------------------------
\* the evaluation that ended the run failed
LastEvalFailed == Len(evals) >= 1 /\ evals[Len(evals)].err # "nil"

ReportsCancellation == vret.result.isNil /\ vret.err = "context canceled"

ReportsEvaluationError ==
    /\ vret.err = "nil"
    /\ ~vret.result.isNil
    /\ vret.result.Error # << >>

(* C12: if the caller's context is cancelled while Verify is evaluating and *)
(* the evaluation fails for it, Verify reports a cancellation (the context's*)
(* error as its Go error, with no result object) and never a result whose   *)
(* Error describes a compilation/runtime error; conversely a genuine compile*)
(* or runtime error of the submission is never reported as a cancellation.  *)
C12_CancellationDistinct ==
    /\ (Returned /\ LastEvalFailed /\ evals[Len(evals)].err = "context canceled")
          => ReportsCancellation /\ ~ReportsEvaluationError
    /\ (Returned /\ LastEvalFailed /\ evals[Len(evals)].err # "context canceled")
          => ~ReportsCancellation

----------------------------------------------------------------------------
\* what the evaluation of one test case alone yields: a function of the query,
\* the submitted source and the test's own Input and Data
Alone(test) ==
    Engine(vcode, vquest.query, test.input,
           IF test.data.isNil THEN [roles |-> {}] ELSE [roles |-> test.data.roles],
           {"http.send", "net.lookup_ip_addr", "opa.runtime"})

(* C13: within one Verify call every test case is evaluated in its own      *)
(* fresh evaluation context, with a store only when the test defines Data   *)
(* and seeded only from that Data: the result of evaluating test k is what  *)
(* evaluating test k alone yields, whatever the Data of its sibling tests.  *)
C13_TestIsolation ==
    \A k \in 1..Len(evals) :
        evals[k].err # "context canceled" =>
            /\ evals[k] = Alone(vquest.tests[k])
            /\ Len(results) >= k => results[k].Actual = ActualOf(Alone(vquest.tests[k]).rs)

\* a data-reading submission: the first test defines Data that grants the
\* input, the second test has the same input and no Data, and is denied
C13_Witness ==
    /\ Returned
    /\ vcode = "roles_level"
    /\ NumTests = MaxTests
    /\ Len(evals) = NumTests
    /\ ~vquest.tests[1].data.isNil
    /\ vquest.tests[2].data.isNil
    /\ vquest.tests[1].input = vquest.tests[2].input
    /\ vret.result.Results[1].Actual
    /\ ~vret.result.Results[2].Actual

----------------------------------------------------------------------------
(* C14: every evaluation performed by Verify runs with http.send,           *)
(* net.lookup_ip_addr and opa.runtime disabled: no evaluation executes one  *)
(* of them, and a run that evaluated a submission invoking one of them      *)
(* never returns Passed = true; it returns a Go error or Passed = false.    *)
C14_UnsafeBuiltinsDisabled ==
    /\ \A i \in 1..Len(evals) : evals[i].effects = {}
    /\ (Returned /\ Invokes(vcode) # {} /\ Len(evals) >= 1)
          => \/ vret.err # "nil"
             \/ ~vret.result.isNil /\ ~vret.result.Passed

\* a submission calling opa.runtime, verified against a test with Data
C14_Witness ==
    /\ Returned
    /\ vcode = "opa_runtime"
    /\ NumTests = MaxTests
    /\ ~vquest.tests[1].data.isNil
    /\ Len(evals) = 1
    /\ evals[1].err # "nil"
    /\ ctxErr = "nil"
    /\ ~vret.result.Passed
    /\ vret.result.Error # << >>

----------------------------------------------------------------------------
(* Helpers of the repository properties *)

\* a LoadPack call has returned
Loaded == lret # NoLoad

LoadFailed == Loaded /\ lret.err # NilError

\* the changes that break no rule: a field exactly at its limit or within it
\* counted in characters, an optional string left empty, a perfect-score
\* message of 201 characters, a repeated quest ID
Harmless ==
    {Defect(<<"pack title">>, "full"), Defect(<<"pack title">>, "wide"),
     Defect(<<"ui_labels.message_success">>, "empty"),
     Defect(<<"ui_labels.perfect_score_message">>, "over200"),
     Defect(<<"quest", 2, "id">>, "same")}

\* the changes that break one validation rule each: a string over its limit,
\* a required string left empty or blank, a required sequence left empty, a
\* genre with a disallowed character, an oversized test payload
Violating ==
    {d \in Defects :
        /\ d.kind \in {"over", "over200", "empty", "blank", "none", "symbols",
                        "payload", "input", "data"}
        /\ d \notin Harmless
        /\ d \notin {Defect(<<"quest", n, "query">>, "empty") : n \in QuestNumbers}}

Unparseable == Defect(<<"json">>, "garbage")

\* the content of two packs is the same
SameContent(p, q) ==
    /\ p.Meta = q.Meta
    /\ p.UILabels = q.UILabels
    /\ p.Prologue = q.Prologue
    /\ p.Epilogue = q.Epilogue
    /\ p.Quests = q.Quests

(* C15: for every pack whose fields are all within their limits and whose   *)
(* required sequences are all non-empty, LoadPack(id, bytes) returns no     *)
(* error and GetPack(id) then returns found = true with a pack whose        *)
(* content equals the parsed input and whose ID is the id passed to         *)
(* LoadPack, whatever id the JSON carries.                                  *)
C15_ValidPackRoundTrip ==
    (Loaded /\ lret.defects \subseteq Harmless) =>
        /\ lret.err = NilError
        /\ GetPack(lret.id).ok
        /\ GetPack(lret.id).pack.ID = lret.id
        /\ SameContent(GetPack(lret.id).pack, PackOf(lret.defects))

----------------------------------------------------------------------------
(* C16: for every pack that violates exactly one validation rule (a field   *)
(* one character over its limit, an empty required string, an empty         *)
(* required sequence, a disallowed genre character, an oversized test       *)
(* payload) and for unparseable bytes, LoadPack returns an error and the    *)
(* pack is absent from GetAllPacks() and GetPack afterwards: no partial     *)
(* load.                                                                    *)
C16_InvalidPackRejected ==
    (Loaded /\ ~lret.existed
            /\ \/ Unparseable \in lret.defects
               \/ Cardinality(lret.defects \cap Violating) = 1)
        => /\ lret.err # NilError
           /\ ~GetPack(lret.id).ok
           /\ \A p \in GetAllPacks : p.ID # lret.id
           /\ GetNumberOfPacks = 0
           /\ (Unparseable \in lret.defects) = (lret.err.kind = "parse")

\* a pack whose only fault is a genre with a disallowed character was refused
C16_Witness ==
    /\ Loaded
    /\ lret.defects = {Defect(<<"pack genre">>, "symbols")}
    /\ lret.err = ValidationFailed(ValidationError(<<"pack genre">>, "characters"))
    /\ GetAllPacks = {}

----------------------------------------------------------------------------
\* the LoadPack call that has just returned succeeded
LoadSucceeded == loads' = loads + 1 /\ lret'.err = NilError

(* C17: a successful LoadPack(id, bytes) changes only the repository entry  *)
(* for id: it replaces any pack stored under id (GetNumberOfPacks does not  *)
(* grow on a reload) and leaves the packs stored under every other id       *)
(* unchanged; so loading two packs with distinct ids gives the same         *)
(* repository in either order.                                              *)
C17_LoadChangesOnlyItsEntry ==
    [][/\ LoadSucceeded =>
            /\ \A i \in PackIDs \ {lret'.id} :
                  /\ (i \in DOMAIN packs') = (i \in DOMAIN packs)
                  /\ i \in DOMAIN packs => packs'[i] = packs[i]
            /\ lret'.id \in DOMAIN packs'
            /\ SameContent(packs'[lret'.id], PackOf(lret'.defects))
            /\ Cardinality(DOMAIN packs') =
                  Cardinality(DOMAIN packs) + (IF lret'.id \in DOMAIN packs THEN 0 ELSE 1)
       /\ \A i, j \in PackIDs, A, B \in StartupInputs :
            i # j =>
              LoadPackResult(LoadPackResult(packs, i, A).packs, j, B).packs
                = LoadPackResult(LoadPackResult(packs, j, B).packs, i, A).packs
      ]_vars

\* a pack was loaded again with another title while a second pack is stored
C17_Witness ==
    /\ lret.existed
    /\ lret.err = NilError
    /\ lret.defects = {Defect(<<"pack title">>, "full")}
    /\ GetNumberOfPacks = 2
    /\ loads = 3
    /\ \A i \in PackIDs \ {lret.id} : packs[i].Meta.Title = Text(9)
    /\ packs[lret.id].Meta.Title = Text(MaxPackTitle)

----------------------------------------------------------------------------
\* the quest IDs asked for
QuestIDs == 0..3

(* C18: GetQuestByID(packId, questId) returns found = false for every       *)
(* questId that is not the ID of a quest of the named loaded pack and for   *)
(* every packId that is not loaded, and returns found = true with a quest   *)
(* whose ID is questId when the loaded pack contains such a quest.          *)
C18_GetQuestByID ==
    \A packID \in PackIDs \cup {"unknown"}, questID \in QuestIDs :
        LET g == GetQuestByID(packID, questID)
        IN IF packID \notin DOMAIN packs THEN ~g.ok
           ELSE IF \E i \in DOMAIN packs[packID].Quests :
                       packs[packID].Quests[i].ID = questID
                THEN g.ok /\ g.quest.ID = questID
                         /\ g.quest \in Range(packs[packID].Quests)
                ELSE ~g.ok

\* one pack is loaded, with quests 1 and 2, and the other pack is not
C18_Witness ==
    /\ Cardinality(DOMAIN packs) = 1
    /\ \A id \in DOMAIN packs :
          /\ GetQuestByID(id, 2).ok
          /\ GetQuestByID(id, 2).quest.ID = 2
          /\ GetQuestByID(id, 1).ok
          /\ ~GetQuestByID(id, 3).ok
    /\ \A id \in PackIDs \ DOMAIN packs : ~GetQuestByID(id, 1).ok

----------------------------------------------------------------------------
\* the place of a field in the validation order: pack meta, UI labels,
\* prologue, epilogue, then the quests in order and within a quest title,
\* task, lore, hints, solution, template, manual, tests
RankInQuest(name) ==
    CASE name = "title" -> 1
      [] name = "task" -> 2
      [] name = "lore" -> 3
      [] name = "hint" -> 4
      [] name = "solution" -> 5
      [] name = "template" -> 6
      [] name \in {"manual.data_model", "manual.rego_snippet",
                   "manual.external_link"} -> 7
      [] name \in {"tests", "test"} -> 8

Rank(field) ==
    IF field \in {d.field : d \in MetaDefects} THEN 1
    ELSE IF field \in {d.field : d \in UILabelDefects} THEN 2
    ELSE IF field[1] = "prologue" THEN 3
    ELSE IF field[1] = "epilogue" THEN 4
    ELSE IF field[1] = "pack quests" THEN 5
    ELSE 10 * field[2] + RankInQuest(field[3])

\* the checks the bytes of the last call fail: the rules they break, and the
\* length check of a title that is over its limit counted in bytes
Broken == lret.defects \cap (Violating \cup {Defect(<<"pack title">>, "wide")})

(* C19: pack validation is fail-fast: when a pack violates several rules,   *)
(* LoadPack reports one validation error, that of the first violated check  *)
(* in validation order (pack meta, then UI labels, prologue, epilogue, then *)
(* the quests in order and within a quest title, task, lore, hints,         *)
(* solution, template, manual, tests); the error names that failing field   *)
(* and no later check is reported.                                          *)
C19_FailFast ==
    (Loaded /\ Unparseable \notin lret.defects /\ Broken # {}) =>
        /\ lret.err.kind = "validation"
        /\ lret.err.cause # NoError
        /\ lret.err.cause.field \in {d.field : d \in Broken}
        /\ \A d \in Broken : Rank(lret.err.cause.field) <= Rank(d.field)

\* the first quest has an over-long manual snippet and an over-long hint:
\* the hint, checked first, is the one reported
C19_Witness ==
    /\ Loaded
    /\ Cardinality(Broken) = 2
    /\ Defect(<<"quest", 1, "hint", 0>>, "over") \in lret.defects
    /\ Defect(<<"quest", 1, "manual.rego_snippet">>, "over") \in lret.defects
    /\ lret.err = ValidationFailed(ValidationError(<<"quest", 1, "hint", 0>>, "length"))

----------------------------------------------------------------------------
\* the pack title, the genre and the eight UI labels of a pack
PerfectScoreMessageOf(pack) == pack.UILabels.PerfectScoreMessage

ShortLabelsOf(pack) ==
    {pack.Meta.Title, pack.Meta.Genre, pack.UILabels.GrimoireTitle,
     pack.UILabels.HintButton, pack.UILabels.VerifyButton,
     pack.UILabels.MessageSuccess, pack.UILabels.MessageFailure,
     pack.UILabels.PerfectScoreButtonText, pack.UILabels.BeginAdventureButton}

(* C20 as stated: every pack title, genre and UI label string has a length  *)
(* ceiling between 50 and 200 characters: a pack in which the title, the    *)
(* genre or any of the eight UI labels is longer than 200 characters is     *)
(* rejected by LoadPack.                                                    *)
C20_LabelsOver200Rejected ==
    (Loaded /\ Unparseable \notin lret.defects
            /\ \E s \in ShortLabelsOf(PackOf(lret.defects))
                         \cup {PerfectScoreMessageOf(PackOf(lret.defects))} :
                    s.chars > 200)
        => LoadFailed

(* C20 amended: the pack title, the genre and seven of the UI labels have a *)
(* length ceiling between 50 and 200 characters and the perfect-score       *)
(* message has a ceiling of 1000: a pack in which the title, the genre or   *)
(* one of those seven labels is longer than 200 characters, or the          *)
(* perfect-score message is longer than 1000, is rejected by LoadPack.      *)
C20_LabelCeilings ==
    /\ {MaxPackTitle, MaxPackGenre, MaxUIGrimoireTitle, MaxUIHintButton,
        MaxUIVerifyButton, MaxUIMessageSuccess, MaxUIMessageFailure,
        MaxUIPerfectScoreButton, MaxUIBeginAdventureButton} \subseteq 50..200
    /\ MaxUIPerfectScoreMessage = 1000
    /\ (Loaded /\ Unparseable \notin lret.defects
               /\ \/ \E s \in ShortLabelsOf(PackOf(lret.defects)) : s.chars > 200
                  \/ PerfectScoreMessageOf(PackOf(lret.defects)).chars > 1000)
          => LoadFailed /\ lret.err.kind = "validation" /\ ~GetPack(lret.id).ok

\* a pack whose only fault is a failure message of 201 characters was refused
C20_Witness ==
    /\ Loaded
    /\ lret.defects = {Defect(<<"ui_labels.message_failure">>, "over")}
    /\ PackOf(lret.defects).UILabels.MessageFailure.chars = 201
    /\ lret.err =
          ValidationFailed(ValidationError(<<"ui_labels.message_failure">>, "length"))

----------------------------------------------------------------------------
(* C21: a quest's query is a required field: a pack containing a quest      *)
(* whose query is missing or empty is rejected by LoadPack, so no quest     *)
(* with an empty Query is stored in the repository, served or handed to     *)
(* Verify.                                                                  *)
C21_QueryRequired ==
    /\ (Loaded /\ Unparseable \notin lret.defects
               /\ \E n \in DOMAIN PackOf(lret.defects).Quests :
                     GoLen(PackOf(lret.defects).Quests[n].Query) = 0)
          => LoadFailed
    /\ \A id \in DOMAIN packs, questID \in QuestIDs :
          GetQuestByID(id, questID).ok => GoLen(GetQuestByID(id, questID).quest.Query) > 0

----------------------------------------------------------------------------
\* the server handles requests
Serving == hpc # "startup"

(* C22: in the server process all writes to the repository's pack map       *)
(* happen in the startup sequence, which completes before the HTTP server   *)
(* starts handling requests; after serving starts no LoadPack or other      *)
(* write to the pack map occurs, so handler reads never overlap a write;    *)
(* and a pack that fails to load during startup is skipped without stopping *)
(* the loading of the remaining packs.                                      *)
C22_WritesOnlyAtStartup ==
    [][/\ (packs' # packs \/ lret' # lret \/ loads' # loads \/ entry' # entry)
            => ~Serving /\ ~Serving'
       /\ Serving => entry = Len(Entries) /\ DOMAIN packs \subseteq Range(Entries)
       /\ served' # served => Serving
       /\ loads' # loads =>
            /\ entry' = entry + 1
            /\ lret'.id = Entries[entry']
            /\ IF lret'.err # NilError THEN packs' = packs
               ELSE lret'.id \in DOMAIN packs' /\
                    \A i \in DOMAIN packs : i # lret'.id => packs'[i] = packs[i]
      ]_vars

\* the first pack failed to load, the second was loaded, and the server has
\* answered a request for a pack
C22_Witness ==
    /\ Serving
    /\ loads = 2
    /\ DOMAIN packs = {Entries[2]}
    /\ lret.id = Entries[2]
    /\ lret.err = NilError
    /\ served.handler = "GetPack"
    /\ served.status = 200

----------------------------------------------------------------------------
(* C23: if the evaluation of test case k fails (compile error or runtime    *)
(* fault) without the context being cancelled, verification stops at once:  *)
(* test cases k+1..N are never evaluated, and the returned result has       *)
(* Passed = false, a non-empty Error and no per-test results at all, the    *)
(* results recorded for tests 1..k-1 being discarded.                       *)
C23_StopsAtFirstFailure ==
    /\ \A k \in 1..Len(evals) :
          evals[k].err # "nil" => k = Len(evals) /\ hpc = "ret" /\ Len(results) = k - 1
    /\ (Returned /\ LastEvalFailed /\ ctxErr = "nil") =>
          /\ ZeroResultsAndError
          /\ vret.result.Error = ErrorString(evals[Len(evals)].err)
          /\ Len(evals) <= NumTests

\* a submission that faults on the input of the last test only: the row of
\* the first test was recorded and is not returned
C23_Witness ==
    /\ Returned
    /\ ctxErr = "nil"
    /\ NumTests = MaxTests
    /\ Len(evals) = NumTests
    /\ evals[NumTests].err = "eval_builtin_error"
    /\ Len(results) = NumTests - 1
    /\ results[1].Passed
    /\ vret.result.Results = << >>
    /\ ~vret.result.Passed

----------------------------------------------------------------------------
----------------------------------------------------------------------------
\* the LoadPack call that has just returned failed
LoadReturnedError == loads' = loads + 1 /\ lret'.err # NilError

(* C25: a LoadPack call that returns an error (parse or validation failure) *)
(* leaves the repository exactly as it was before the call: no entry is     *)
(* added, and a pack loaded successfully before under the same id remains   *)
(* stored and retrievable unchanged.                                        *)
C25_FailedLoadLeavesRepository ==
    [][LoadReturnedError =>
          /\ packs' = packs
          /\ DOMAIN packs' = DOMAIN packs
          /\ lret'.id \in DOMAIN packs =>
                /\ lret'.id \in DOMAIN packs'
                /\ packs'[lret'.id] = packs[lret'.id]
          /\ \A q \in QuestIDs :
                LET before == IF lret'.id \in DOMAIN packs
                                 /\ q \in DOMAIN packs[lret'.id].questMap
                              THEN packs[lret'.id].Quests[packs[lret'.id].questMap[q]]
                              ELSE NilQuest
                    after == IF lret'.id \in DOMAIN packs'
                                /\ q \in DOMAIN packs'[lret'.id].questMap
                             THEN packs'[lret'.id].Quests[packs'[lret'.id].questMap[q]]
                             ELSE NilQuest
                IN after = before
      ]_vars

\* a stored pack was loaded again with bytes that do not parse and is still
\* stored with its title and its quests
C25_Witness ==
    /\ lret.existed
    /\ lret.err = ParseError
    /\ lret.id \in DOMAIN packs
    /\ GetPack(lret.id).ok
    /\ GetPack(lret.id).pack.Meta.Title = Text(MaxPackTitle)
    /\ GetQuestByID(lret.id, 1).ok
    /\ GetNumberOfPacks = 1

----------------------------------------------------------------------------
(* C26: in every reachable state of the rate limiter every entry of the     *)
(* client map has count >= 1, and the count of a key that is always checked *)
(* with the same limit L never exceeds max(1, L); a denied check leaves the *)
(* entry's count and windowStart unchanged.                                 *)
C26_CountBounds ==
    [][/\ \A k \in DOMAIN clients' :
             /\ clients'[k].count >= 1
             /\ clients'[k].count <= Max2(1, LimitOfClass(k))
       /\ \A t \in Workers : (CheckDone(t) /\ last' = "429") =>
             /\ loc[t].key \in DOMAIN clients
             /\ clients'[loc[t].key] = clients[loc[t].key]
             /\ clients' = clients
      ]_vars

\* a key with its count at the limit was denied after its window began, and
\* the entry still has the count and the windowStart of before
C26_Witness ==
    \E k \in DOMAIN clients :
        /\ last = "429"
        /\ LimitOfClass(k) = MaxLimit
        /\ clients[k].count = MaxLimit
        /\ clients[k].windowStart > 0
        /\ clock > clients[k].windowStart
        /\ gwin[k].checks > MaxLimit

----------------------------------------------------------------------------
\* The decision of checkLimit for a check of class c at time now with the
\* given limit, on the entry the key would have if no sweep had ever run:
\* gwin keeps the window start and the allowed checks from the timestamps
\* and outcomes of the checks alone, and no sweep changes it.
AllowedWithoutSweeps(c, now, limit) ==
    \/ c \notin DOMAIN gwin
    \/ now - gwin[c].start >= cfg.windowDuration
    \/ gwin[c].allowed < limit

(* C27: the background sweep is unobservable through checkLimit: for every  *)
(* sequence of timestamped checks with a window W >= 0 the allow/deny       *)
(* outcome of each check is the same whether or not sweeps run in between;  *)
(* a sweep removes only entries whose window has elapsed, which the next    *)
(* check would reset anyway.                                                *)
C27_SweepUnobservable ==
    [][/\ \A t \in Workers : CheckDone(t) =>
             /\ Allowed(last') = AllowedWithoutSweeps(loc[t].class, loc[t].now, loc[t].limit)
             /\ clients'[loc[t].key].count = gwin'[loc[t].class].allowed
             /\ clients'[loc[t].key].windowStart = gwin'[loc[t].class].start
       /\ SweepDone =>
             \A k \in DOMAIN clients \ DOMAIN clients' :
                 sweepNow - clients[k].windowStart >= cfg.windowDuration
      ]_vars

\* a check is under way on a key that was allowed before and that a sweep
\* has removed from the map
C27_Witness ==
    \E t \in Workers :
        /\ pc[t] = "locked"
        /\ ~loc[t].exists
        /\ loc[t].class \in DOMAIN gwin
        /\ gwin[loc[t].class].allowed >= 1
        /\ loc[t].limit >= 1

----------------------------------------------------------------------------
RECURSIVE SumTo(_, _)
SumTo(f, n) == IF n = 0 THEN 0 ELSE f[n] + SumTo(f, n - 1)

\* the checks of class c allowed in the half-open interval of length
\* windowDuration that ends with the timestamp of the last check of c
AllowedInLastInterval(c) == SumTo(hist.of[c].recent, Slots)

(* C28: for a client key with limit L >= 1 and window W, the number of      *)
(* checks allowed by checkLimit in any time interval of length W (a         *)
(* half-open interval [a, a + W), not only one aligned with a window start) *)
(* never exceeds 2 * L, and within a single window                          *)
(* [windowStart, windowStart + W) it never exceeds L.                       *)
C28_AtMostTwiceLPerInterval ==
    \A c \in DOMAIN hist.of :
        LimitOfClass(c) >= 1 =>
            /\ AllowedInLastInterval(c) <= 2 * LimitOfClass(c)
            /\ c \in DOMAIN gwin
            /\ gwin[c].allowed <= LimitOfClass(c)
            /\ c \in DOMAIN clients =>
                  /\ clients[c].count <= LimitOfClass(c)
                  /\ clients[c].windowStart = gwin[c].start

\* an interval of length W that is not aligned with a window start holds
\* more than L allowed checks: the last ones of a window and the L of the next
C28_Witness ==
    \E c \in DOMAIN hist.of :
        /\ LimitOfClass(c) = MaxLimit
        /\ AllowedInLastInterval(c) > LimitOfClass(c)
        /\ gwin[c].allowed = LimitOfClass(c)
        /\ gwin[c].start = hist.of[c].seen
        /\ last = "429"

----------------------------------------------------------------------------
\* the places in the quest list of pack p of the quests with ID q
PlacesOf(p, q) == {i \in DOMAIN p.Quests : p.Quests[i].ID = q}

\* the greatest element of a non-empty set of numbers
Greatest(S) == CHOOSE x \in S : \A y \in S : y <= x

(* C29: after a successful LoadPack the pack's quest index is consistent    *)
(* with its quest list: every index entry refers to an element of the       *)
(* pack's Quests whose ID equals the index key, every quest ID occurring in *)
(* Quests is present in the index, and when several quests of the pack      *)
(* share an ID, GetQuestByID returns the last of them in list order.        *)
C29_QuestIndexConsistent ==
    \A id \in DOMAIN packs :
        LET p == packs[id]
        IN /\ \A k \in DOMAIN p.questMap :
                 /\ p.questMap[k] \in DOMAIN p.Quests
                 /\ p.Quests[p.questMap[k]].ID = k
           /\ \A i \in DOMAIN p.Quests : p.Quests[i].ID \in DOMAIN p.questMap
           /\ \A q \in QuestIDs :
                 PlacesOf(p, q) # {} =>
                    /\ GetQuestByID(id, q).ok
                    /\ GetQuestByID(id, q).quest = p.Quests[Greatest(PlacesOf(p, q))]
                    /\ p.questMap[q] = Greatest(PlacesOf(p, q))

\* a pack whose two quests share the ID 1 and differ otherwise was loaded,
\* and GetQuestByID gives the second
C29_Witness ==
    /\ Loaded
    /\ lret.err = NilError
    /\ lret.defects = {Defect(<<"quest", 2, "id">>, "same")}
    /\ lret.id \in DOMAIN packs
    /\ LET p == packs[lret.id]
       IN /\ PlacesOf(p, 1) = {1, 2}
          /\ p.Quests[1] # p.Quests[2]
          /\ GetQuestByID(lret.id, 1).quest = p.Quests[2]
          /\ ~GetQuestByID(lret.id, 2).ok

----------------------------------------------------------------------------
\* what Verify gave for the i-th quest of the command's pack shows no error
\* and a passed row for every test case of the quest
QuestClean(i) ==
    /\ cmd.log[i].err = "nil"
    /\ ~cmd.log[i].result.isNil
    /\ cmd.log[i].result.Error = << >>
    /\ Len(cmd.log[i].result.Results) = Len(cmd.quests[i].quest.tests)
    /\ \A j \in DOMAIN cmd.log[i].result.Results : cmd.log[i].result.Results[j].Passed

(* C30 as stated: the solutionverifier command exits with status 0 only if, *)
(* for every quest of the loaded pack, verifying the quest's own solution   *)
(* produced no error and every one of the quest's test cases passed; a      *)
(* quest whose solution fails to compile, or whose verification returns an  *)
(* error, makes the command exit with a non-zero status.                    *)
C30_ExitZeroOnlyIfAllPassed ==
    /\ cmd.status = 0 =>
          /\ Len(cmd.log) = Len(cmd.quests)
          /\ \A i \in DOMAIN cmd.quests : QuestClean(i)
    /\ (cmd.pc = "exit" /\ \E i \in DOMAIN cmd.log :
                               \/ cmd.log[i].err # "nil"
                               \/ cmd.log[i].result.Error # << >>)
          => cmd.status # 0

====
